---- MODULE Spec2Model ----
(***************************************************************************)
(* Pong frame-update engine (PongEngine.c, Ball.c, Paddle.c, Utils.h,      *)
(* Buzzer.c) as a state machine.                                           *)
(*                                                                         *)
(* Conventions                                                             *)
(*  - float velocities are held in thousandths of a pixel per frame, so    *)
(*    speed * 0.707f is speed * 707 and 8.0f * 0.707f is 5656; the cast    *)
(*    (int16_t)v is truncation toward zero of v / 1000;                    *)
(*  - uint32_t values (HAL_GetTick, buzzer_stop_tick) are records          *)
(*    [hi, lo] of two 16-bit halves, so that the arithmetic keeps its      *)
(*    32-bit width;                                                        *)
(*  - uint8_t lives and uint16_t score wrap modulo 2^8 and 2^16.           *)
(***************************************************************************)
EXTENDS Integers, Sequences, FiniteSets, TLC

VARIABLES
    cfg,               \* arguments given to PongEngine_Init
    ball,              \* engine->ball    (Ball_t)
    paddle,            \* engine->paddle  (Paddle_t)
    lives,             \* engine->lives   (uint8_t)
    buzzer,            \* buzzer_cfg      (Buzzer_cfg_t) and the timer registers it drives
    buzzer_stop_tick,  \* static uint32_t buzzer_stop_tick
    tick,              \* HAL_GetTick(), milliseconds, uint32_t
    frame,             \* observation of the last call: operation, intermediate steps, return value
    image_buffer,      \* static uint8_t image_buffer[BUFFER_LENGTH], two 4-bit pixels per byte
    track_changes,     \* static uint8_t track_changes[ST7789V2_HEIGHT], the dirty-row flags
    colour_map,        \* static const uint16_t *colour_map, the active palette
    panel,             \* the display: for each row, the pixels last transmitted to it
    stray,             \* offsets of the writes made through track_changes beyond its 240 entries
    joystick,          \* joystick_cfg (Joystick_cfg_t) and joystick_data (Joystick_t)
    pwm                \* pwm_cfg (PWM_cfg_t) and the timer registers it drives

pongVars == <<cfg, ball, paddle, lives, buzzer, buzzer_stop_tick, tick>>

lcdVars == <<image_buffer, track_changes, colour_map, panel, stray>>

ioVars == <<joystick, pwm>>

vars == <<cfg, ball, paddle, lives, buzzer, buzzer_stop_tick, tick, frame,
          image_buffer, track_changes, colour_map, panel, stray, joystick, pwm>>

----------------------------------------------------------------------------
(* Program constants *)

JOYSTICK_DEFAULT_CENTER_X == 2048
JOYSTICK_DEFAULT_CENTER_Y == 2048
JOYSTICK_DEADZONE == 200

SCREEN_WIDTH == 240
SCREEN_HEIGHT == 240
BALL_RESET_OFFSET == 20
BUZZER_WALL_FREQ_HZ == 1200
BUZZER_PADDLE_FREQ_HZ == 800
BUZZER_VOLUME == 50
BUZZER_BEEP_MS == 40
INITIAL_LIVES == 4
ENGINE_PADDLE_SPEED == 6
DIAG_707 == 707
RESET_SPEED == 8
BUZZER_TICK_FREQ_HZ == 1000000
BUZZER_MIN_FREQ_HZ == 20
BUZZER_MAX_FREQ_HZ == 20000

Direction == {"CENTRE", "N", "NE", "E", "SE", "S", "SW", "W", "NW"}

(* Bounds of the model *)

MaxFrames == 75       \* frames of a played session
MaxIdleFrames == 320  \* frames of a session with the joystick left centred

----------------------------------------------------------------------------
(* C arithmetic *)

Abs(n) == IF n < 0 THEN -n ELSE n

\* a / b of C (truncation toward zero), b > 0
CDiv(a, b) == IF a >= 0 THEN a \div b ELSE -((-a) \div b)

\* (int16_t)v for a float v held in thousandths
FloatToInt16(v) == CDiv(v, 1000)

\* uint32_t as two 16-bit halves
U32(n) == [hi |-> (n \div 65536) % 65536, lo |-> n % 65536]

U32_Add(a, n) ==
    LET s == a.lo + (n % 65536)
    IN  [hi |-> (a.hi + (n \div 65536) + (s \div 65536)) % 65536, lo |-> s % 65536]

U32_Sub(a, b) ==
    LET d == a.lo - b.lo
    IN  [hi |-> (a.hi - b.hi - (IF d < 0 THEN 1 ELSE 0)) % 65536, lo |-> d % 65536]

\* (int32_t)u >= 0
Int32_NonNeg(u) == u.hi < 32768

clamp_u32(x, lo, hi) == IF x < lo THEN lo ELSE IF x > hi THEN hi ELSE x

----------------------------------------------------------------------------
(* Utils.h *)

\* variant: the first comparison lets a shared edge count
AABB_Collides_EdgeCounts(a, b) ==
    /\ a.x <= b.x + b.width
    /\ a.x + a.width > b.x
    /\ a.y < b.y + b.height
    /\ a.y + a.height > b.y

AABB_Collides(a, b) ==
    /\ a.x < b.x + b.width
    /\ a.x + a.width > b.x
    /\ a.y < b.y + b.height
    /\ a.y + a.height > b.y

\* variant: the remainder is taken over max + 2 values
Random_U16_Wide(max, r) ==
    IF ~r.ok THEN 0
    ELSE IF max = 0 THEN 0
    ELSE (r.rnd % (max + 2)) % 65536

\* r is the outcome of HAL_RNG_GenerateRandomNumber: its status and the word it wrote
Random_U16(max, r) ==
    IF ~r.ok THEN 0
    ELSE IF max = 0 THEN 0
    ELSE (r.rnd % max) % 65536

----------------------------------------------------------------------------
(* Buzzer.c *)

buzzer_off(b) ==
    IF b.pwm_started THEN [b EXCEPT !.ccr = 0, !.pwm_started = FALSE] ELSE b

buzzer_init(b) ==
    IF ~b.setup_done THEN [b EXCEPT !.pwm_started = FALSE, !.setup_done = TRUE] ELSE b

buzzer_tone(b0, freq_hz, volume_percent) ==
    LET b == buzzer_init(b0)
    IN  IF volume_percent = 0 \/ freq_hz = 0 THEN buzzer_off(b)
        ELSE LET f == clamp_u32(freq_hz, BUZZER_MIN_FREQ_HZ, BUZZER_MAX_FREQ_HZ)
                 arr == clamp_u32((BUZZER_TICK_FREQ_HZ \div f) - 1, 1, 2147483647)
                 vol == clamp_u32(volume_percent, 0, 100)
                 half_period == (arr + 1) \div 2
             IN  [b EXCEPT !.pwm_started = TRUE, !.arr = arr,
                           !.ccr = (half_period * vol) \div 100]

----------------------------------------------------------------------------
(* Ball.c *)

Ball_Init(size, speed) ==
    [size |-> size,
     x |-> CDiv(SCREEN_WIDTH - size, 2),
     y |-> CDiv(SCREEN_HEIGHT - size, 2),
     velocity |-> [x |-> speed * DIAG_707, y |-> speed * DIAG_707]]

\* a Ball_Update that rounds each component to the nearest pixel
Ball_Update_Rounded(b) ==
    [b EXCEPT !.x = @ + CDiv(2 * b.velocity.x + (IF b.velocity.x < 0 THEN -1000 ELSE 1000), 2000),
              !.y = @ + CDiv(2 * b.velocity.y + (IF b.velocity.y < 0 THEN -1000 ELSE 1000), 2000)]

Ball_Update(b) ==
    [b EXCEPT !.x = @ + FloatToInt16(b.velocity.x),
              !.y = @ + FloatToInt16(b.velocity.y)]

Ball_GetAABB(b) == [x |-> b.x, y |-> b.y, width |-> b.size, height |-> b.size]

Ball_SetVelocity(b, vx, vy) == [b EXCEPT !.velocity = [x |-> vx, y |-> vy]]

Ball_SetPos(b, pos) == [b EXCEPT !.x = pos.x, !.y = pos.y]

Ball_GetVelocity(b) == b.velocity

----------------------------------------------------------------------------
(* Paddle.c *)

Paddle_Init(x, y, width, height, speed) ==
    [x |-> x, y |-> y, width |-> width, height |-> height, speed |-> speed, score |-> 0]

\* variant: the bottom test compares the top edge, not the bottom edge
Paddle_Update_BottomByTop(p, input) ==
    LET p1 == IF input.direction \in {"N", "NE", "NW"} THEN [p EXCEPT !.y = @ - p.speed]
              ELSE IF input.direction \in {"S", "SE", "SW"} THEN [p EXCEPT !.y = @ + p.speed]
              ELSE p
        p2 == IF p1.y < 0 THEN [p1 EXCEPT !.y = 0] ELSE p1
    IN  IF p2.y > SCREEN_HEIGHT THEN [p2 EXCEPT !.y = SCREEN_HEIGHT - p2.height] ELSE p2

\* variant: only N and S move the paddle
Paddle_Update_NoDiagonals(p, input) ==
    LET p1 == IF input.direction = "N" THEN [p EXCEPT !.y = @ - p.speed]
              ELSE IF input.direction = "S" THEN [p EXCEPT !.y = @ + p.speed]
              ELSE p
        p2 == IF p1.y < 0 THEN [p1 EXCEPT !.y = 0] ELSE p1
        paddle_bottom == p2.y + p2.height
    IN  IF paddle_bottom > SCREEN_HEIGHT THEN [p2 EXCEPT !.y = SCREEN_HEIGHT - p2.height] ELSE p2

Paddle_Update(p, input) ==
    LET p1 == IF input.direction \in {"N", "NE", "NW"} THEN [p EXCEPT !.y = @ - p.speed]
              ELSE IF input.direction \in {"S", "SE", "SW"} THEN [p EXCEPT !.y = @ + p.speed]
              ELSE p
        p2 == IF p1.y < 0 THEN [p1 EXCEPT !.y = 0] ELSE p1
        paddle_bottom == p2.y + p2.height
    IN  IF paddle_bottom > SCREEN_HEIGHT THEN [p2 EXCEPT !.y = SCREEN_HEIGHT - p2.height] ELSE p2

Paddle_GetAABB(p) == [x |-> p.x, y |-> p.y, width |-> p.width, height |-> p.height]

Paddle_AddScore(p) == [p EXCEPT !.score = (@ + 1) % 65536]

Paddle_GetScore(p) == p.score

----------------------------------------------------------------------------
(* PongEngine.c.  The static helpers act on the world w: the engine       *)
(* (ball, paddle, lives), the buzzer, buzzer_stop_tick, the tick read by  *)
(* HAL_GetTick during the call (now) and the events of the call so far.   *)

\* variant: a cue triggered while a stop time is pending keeps that stop time
PongEngine_Beep_KeepsDeadline(w, freq_hz) ==
    [w EXCEPT !.buzzer = buzzer_tone(@, freq_hz, BUZZER_VOLUME),
              !.buzzer_stop_tick = IF @ # U32(0) THEN @ ELSE U32_Add(w.now, BUZZER_BEEP_MS),
              !.events = Append(@, [ev |-> "beep", freq_hz |-> freq_hz])]

PongEngine_Beep(w, freq_hz) ==
    [w EXCEPT !.buzzer = buzzer_tone(@, freq_hz, BUZZER_VOLUME),
              !.buzzer_stop_tick = U32_Add(w.now, BUZZER_BEEP_MS),
              !.events = Append(@, [ev |-> "beep", freq_hz |-> freq_hz])]

PongEngine_UpdateBuzzer(w) ==
    IF w.buzzer_stop_tick # U32(0) /\ Int32_NonNeg(U32_Sub(w.now, w.buzzer_stop_tick))
    THEN [w EXCEPT !.buzzer = buzzer_off(@),
                   !.buzzer_stop_tick = U32(0),
                   !.events = Append(@, [ev |-> "buzzer_off"])]
    ELSE w

\* variant: the right edge is not a wall
PongEngine_CheckWallCollision_NoRightWall(w) ==
    LET vel == Ball_GetVelocity(w.ball)
    IN  IF w.ball.y <= 0
        THEN PongEngine_Beep(
                 [w EXCEPT !.ball = Ball_SetVelocity([w.ball EXCEPT !.y = 2], vel.x, -vel.y),
                           !.events = Append(@, [ev |-> "wall_top"])],
                 BUZZER_WALL_FREQ_HZ)
        ELSE IF w.ball.y + w.ball.size >= SCREEN_HEIGHT
        THEN PongEngine_Beep(
                 [w EXCEPT !.ball = Ball_SetVelocity(
                                        [w.ball EXCEPT !.y = SCREEN_HEIGHT - w.ball.size - 2],
                                        vel.x, -vel.y),
                           !.events = Append(@, [ev |-> "wall_bottom"])],
                 BUZZER_WALL_FREQ_HZ)
        ELSE w

PongEngine_CheckWallCollision(w) ==
    LET vel == Ball_GetVelocity(w.ball)
        w1 == IF w.ball.y <= 0
              THEN PongEngine_Beep(
                       [w EXCEPT !.ball = Ball_SetVelocity([w.ball EXCEPT !.y = 2], vel.x, -vel.y),
                                 !.events = Append(@, [ev |-> "wall_top"])],
                       BUZZER_WALL_FREQ_HZ)
              ELSE IF w.ball.y + w.ball.size >= SCREEN_HEIGHT
              THEN PongEngine_Beep(
                       [w EXCEPT !.ball = Ball_SetVelocity(
                                              [w.ball EXCEPT !.y = SCREEN_HEIGHT - w.ball.size - 2],
                                              vel.x, -vel.y),
                                 !.events = Append(@, [ev |-> "wall_bottom"])],
                       BUZZER_WALL_FREQ_HZ)
              ELSE w
    IN  IF w1.ball.x + w1.ball.size >= SCREEN_WIDTH
        THEN PongEngine_Beep(
                 [w1 EXCEPT !.ball = Ball_SetVelocity(
                                         [w1.ball EXCEPT !.x = SCREEN_WIDTH - w1.ball.size - 2],
                                         -vel.x, vel.y),
                            !.events = Append(@, [ev |-> "wall_right"])],
                 BUZZER_WALL_FREQ_HZ)
        ELSE w1

\* variant: the horizontal velocity is kept
PongEngine_CheckPaddleCollision_NoBounce(w) ==
    LET ball_box == Ball_GetAABB(w.ball)
        paddle_box == Paddle_GetAABB(w.paddle)
    IN  IF AABB_Collides(ball_box, paddle_box)
        THEN PongEngine_Beep(
                 [w EXCEPT !.ball = [w.ball EXCEPT !.x = paddle_box.x + paddle_box.width],
                           !.paddle = Paddle_AddScore(@),
                           !.events = Append(@, [ev |-> "paddle_hit"])],
                 BUZZER_PADDLE_FREQ_HZ)
        ELSE w

\* variant: the ball is not moved out of the paddle
PongEngine_CheckPaddleCollision_NoReposition(w) ==
    LET vel == Ball_GetVelocity(w.ball)
        ball_box == Ball_GetAABB(w.ball)
        paddle_box == Paddle_GetAABB(w.paddle)
    IN  IF AABB_Collides(ball_box, paddle_box)
        THEN PongEngine_Beep(
                 [w EXCEPT !.ball = Ball_SetVelocity(w.ball, -vel.x, vel.y),
                           !.paddle = Paddle_AddScore(@),
                           !.events = Append(@, [ev |-> "paddle_hit"])],
                 BUZZER_PADDLE_FREQ_HZ)
        ELSE w

\* variant: a paddle hit speeds the ball up by a tenth
PongEngine_CheckPaddleCollision_SpeedsUp(w) ==
    LET vel == Ball_GetVelocity(w.ball)
        ball_box == Ball_GetAABB(w.ball)
        paddle_box == Paddle_GetAABB(w.paddle)
    IN  IF AABB_Collides(ball_box, paddle_box)
        THEN PongEngine_Beep(
                 [w EXCEPT !.ball = [Ball_SetVelocity(w.ball, -CDiv(vel.x * 11, 10), vel.y)
                                        EXCEPT !.x = paddle_box.x + paddle_box.width],
                           !.paddle = Paddle_AddScore(@),
                           !.events = Append(@, [ev |-> "paddle_hit"])],
                 BUZZER_PADDLE_FREQ_HZ)
        ELSE w

PongEngine_CheckPaddleCollision(w) ==
    LET vel == Ball_GetVelocity(w.ball)
        ball_box == Ball_GetAABB(w.ball)
        paddle_box == Paddle_GetAABB(w.paddle)
    IN  IF AABB_Collides(ball_box, paddle_box)
        THEN PongEngine_Beep(
                 [w EXCEPT !.ball = [Ball_SetVelocity(w.ball, -vel.x, vel.y)
                                        EXCEPT !.x = paddle_box.x + paddle_box.width],
                           !.paddle = Paddle_AddScore(@),
                           !.events = Append(@, [ev |-> "paddle_hit"])],
                 BUZZER_PADDLE_FREQ_HZ)
        ELSE w

\* variant: a goal also counts as a point
PongEngine_CheckGoal_AddsScore(w, r1, r2) ==
    IF w.ball.x < 0
    THEN LET dx == Random_U16(2 * BALL_RESET_OFFSET + 1, r1) - BALL_RESET_OFFSET
             dy == Random_U16(2 * BALL_RESET_OFFSET + 1, r2) - BALL_RESET_OFFSET
             center_pos == [x |-> CDiv(SCREEN_WIDTH - w.ball.size, 2) + dx,
                            y |-> CDiv(SCREEN_HEIGHT - w.ball.size, 2) + dy]
         IN  [w EXCEPT !.lives = (@ - 1) % 256,
                       !.paddle = Paddle_AddScore(@),
                       !.ball = Ball_SetVelocity(Ball_SetPos(w.ball, center_pos),
                                                 RESET_SPEED * DIAG_707, RESET_SPEED * DIAG_707),
                       !.events = Append(@, [ev |-> "goal"])]
    ELSE w

PongEngine_CheckGoal(w, r1, r2) ==
    IF w.ball.x < 0
    THEN LET dx == Random_U16(2 * BALL_RESET_OFFSET + 1, r1) - BALL_RESET_OFFSET
             dy == Random_U16(2 * BALL_RESET_OFFSET + 1, r2) - BALL_RESET_OFFSET
             center_pos == [x |-> CDiv(SCREEN_WIDTH - w.ball.size, 2) + dx,
                            y |-> CDiv(SCREEN_HEIGHT - w.ball.size, 2) + dy]
         IN  [w EXCEPT !.lives = (@ - 1) % 256,
                       !.ball = Ball_SetVelocity(Ball_SetPos(w.ball, center_pos),
                                                 RESET_SPEED * DIAG_707, RESET_SPEED * DIAG_707),
                       !.events = Append(@, [ev |-> "goal"])]
    ELSE w

\* The engine after PongEngine_Init(engine, paddle_x, ..., ball_size, ball_speed)
PongEngine_Init(c) ==
    [ball |-> Ball_Init(c.ball_size, c.ball_speed),
     paddle |-> Paddle_Init(c.paddle_x, c.paddle_y, c.paddle_width, c.paddle_height,
                            ENGINE_PADDLE_SPEED),
     lives |-> INITIAL_LIVES]

\* variant: the goal check runs before the paddle collision
PongEngine_Update_GoalBeforePaddle(w, input, r1, r2) ==
    LET w1 == [w EXCEPT !.paddle = Paddle_Update(@, input)]
        w2 == [w1 EXCEPT !.ball = Ball_Update(@)]
        w3 == PongEngine_CheckWallCollision(w2)
        w4 == PongEngine_CheckGoal(w3, r1, r2)
        w5 == PongEngine_CheckPaddleCollision(w4)
        w6 == PongEngine_UpdateBuzzer(w5)
    IN  [w6 EXCEPT !.moved = w2.ball, !.walled = w3.ball, !.paddled = w5.ball,
                   !.ret = w6.lives]

\* One call of PongEngine_Update; the result carries the ball after each
\* step and the value returned.
PongEngine_Update(w, input, r1, r2) ==
    LET w1 == [w EXCEPT !.paddle = Paddle_Update(@, input)]
        w2 == [w1 EXCEPT !.ball = Ball_Update(@)]
        w3 == PongEngine_CheckWallCollision(w2)
        w4 == PongEngine_CheckPaddleCollision(w3)
        w5 == PongEngine_CheckGoal(w4, r1, r2)
        w6 == PongEngine_UpdateBuzzer(w5)
    IN  [w6 EXCEPT !.moved = w2.ball, !.walled = w3.ball, !.paddled = w4.ball,
                   !.ret = w6.lives]

PongEngine_GetLives(e) == e.lives

PongEngine_GetScore(e) == Paddle_GetScore(e.paddle)

----------------------------------------------------------------------------
(* LCD.c.  The statics of the file are the record l:                      *)
(* [image_buffer, track_changes, colour_map, stray].                      *)
(*                                                                         *)
(* image_buffer is held as [fill, over]: byte i is over[i] where i is in  *)
(* DOMAIN over and (fill.mul * i + fill.add) % 256 elsewhere, so a buffer *)
(* written as a whole (LCD_clear, LCD_Fill_Buffer, LCD_randomiseBuffer)   *)
(* is a fill with no overrides and a byte write is one override.          *)

ST7789V2_WIDTH == 240
ST7789V2_HEIGHT == 240
BUFFER_LENGTH == (ST7789V2_HEIGHT * ST7789V2_WIDTH) \div 2
TRANSPARENT == 255

U8(n) == n % 256

U16(n) == n % 65536

Int16(n) == LET u == n % 65536 IN IF u >= 32768 THEN u - 65536 ELSE u

\* a / b of C for any signs, b # 0
CQuot(a, b) ==
    LET q == Abs(a) \div Abs(b)
    IN  IF (a < 0) = (b < 0) THEN q ELSE -q

RECURSIVE BitOr(_, _)
BitOr(a, b) ==
    IF a = 0 THEN b
    ELSE IF b = 0 THEN a
    ELSE (IF a % 2 = 1 \/ b % 2 = 1 THEN 1 ELSE 0) + 2 * BitOr(a \div 2, b \div 2)

\* byte & 0x0F and byte & 0xF0
LowNibble(byte) == byte % 16

HighNibble(byte) == byte - (byte % 16)

palette_default ==
    <<0, 65535, 248, 57351, 7936, 8445, 57599, 6396,
      3960, 3840, 41214, 23697, 17825, 4228, 65287, 8184>>

palette_greyscale ==
    <<0, 49944, 17705, 51001, 10306, 43602, 11363, 36467,
      61307, 29068, 54172, 21933, 63421, 39638, 15591, 65535>>

palette_vintage ==
    <<0, 62364, 65535, 9913, 29155, 58697, 9379, 18156,
      3575, 18730, 17220, 25766, 9753, 45058, 7733, 64950>>

palette_custom ==
    <<0, 63655, 43325, 24536, 46837, 14340, 59577, 32134,
      55805, 32134, 65287, 9379, 23288, 48708, 53828, 48708>>

Palette(name) ==
    CASE name = "palette_greyscale" -> palette_greyscale
      [] name = "palette_vintage" -> palette_vintage
      [] name = "palette_custom" -> palette_custom
      [] OTHER -> palette_default

\* colour_map[i], i in 0..15
ColourOf(name, i) == Palette(name)[i + 1]

Rows == 0 .. (ST7789V2_HEIGHT - 1)

AllRows(v) == [r \in Rows |-> v]

ConstFill(byte) == [fill |-> [mul |-> 0, add |-> byte], over |-> [i \in {} |-> 0]]

\* image_buffer[i]
ByteAt(buf, i) ==
    IF i \in DOMAIN buf.over THEN buf.over[i]
    ELSE (buf.fill.mul * i + buf.fill.add) % 256

\* image_buffer[i] = v
WriteByte(buf, i, v) ==
    LET plain == (buf.fill.mul * i + buf.fill.add) % 256
        dom == IF v = plain THEN DOMAIN buf.over \ {i} ELSE DOMAIN buf.over \cup {i}
    IN  [buf EXCEPT !.over = [j \in dom |-> IF j = i THEN v ELSE buf.over[j]]]

\* the statics as the C runtime zero-initialises them, colour_map = palette_default
LcdStatics ==
    [image_buffer |-> ConstFill(0),
     track_changes |-> AllRows(0),
     colour_map |-> "palette_default",
     stray |-> {}]

\* the writes of LCD_clear cover (BUFFER_LENGTH >> 2) words of four bytes, the whole buffer
LCD_clear(l) ==
    [l EXCEPT !.track_changes = AllRows(1),
              !.image_buffer = ConstFill(0)]

\* variant: the rows are not marked
LCD_Set_Palette_NoMark(l, palette) ==
    [l EXCEPT !.colour_map = CASE palette = 1 -> "palette_greyscale"
                               [] palette = 2 -> "palette_vintage"
                               [] palette = 3 -> "palette_custom"
                               [] OTHER -> "palette_default"]

LCD_Set_Palette(l, palette) ==
    [l EXCEPT !.colour_map = CASE palette = 1 -> "palette_greyscale"
                               [] palette = 2 -> "palette_vintage"
                               [] palette = 3 -> "palette_custom"
                               [] OTHER -> "palette_default",
              !.track_changes = AllRows(1)]

\* track_changes[y] = 1.  For y >= 240 the write lands beyond the array: where is
\* up to the build.  lay = "image_buffer" is the build that places image_buffer
\* right after track_changes, lay = "elsewhere" one in which the byte hit belongs
\* to neither array.
MarkRow(l, y, lay) ==
    IF y < ST7789V2_HEIGHT THEN [l EXCEPT !.track_changes[y] = 1]
    ELSE IF lay = "image_buffer" /\ y - ST7789V2_HEIGHT < BUFFER_LENGTH
    THEN [l EXCEPT !.stray = @ \cup {y},
                   !.image_buffer = WriteByte(@, y - ST7789V2_HEIGHT, 1)]
    ELSE [l EXCEPT !.stray = @ \cup {y}]

\* variant: every row is marked, as the whole-buffer operations do
LCD_Set_Pixel_MarksAll(l, x, y, colour, lay) ==
    LET l1 == [MarkRow(l, y, lay) EXCEPT !.track_changes = AllRows(1)]
        index == U16((ST7789V2_WIDTH * y + x) \div 2)
        old == ByteAt(l1.image_buffer, index)
    IN  IF x < ST7789V2_WIDTH /\ y < ST7789V2_HEIGHT
        THEN IF x % 2 = 1
             THEN [l1 EXCEPT !.image_buffer =
                      WriteByte(@, index, U8(BitOr(colour * 16, LowNibble(old))))]
             ELSE [l1 EXCEPT !.image_buffer =
                      WriteByte(@, index, U8(BitOr(colour, HighNibble(old))))]
        ELSE l1

LCD_Set_Pixel(l, x, y, colour, lay) ==
    LET l1 == MarkRow(l, y, lay)
        index == U16((ST7789V2_WIDTH * y + x) \div 2)
        old == ByteAt(l1.image_buffer, index)
    IN  IF x < ST7789V2_WIDTH /\ y < ST7789V2_HEIGHT
        THEN IF x % 2 = 1
             THEN [l1 EXCEPT !.image_buffer =
                      WriteByte(@, index, U8(BitOr(colour * 16, LowNibble(old))))]
             ELSE [l1 EXCEPT !.image_buffer =
                      WriteByte(@, index, U8(BitOr(colour, HighNibble(old))))]
        ELSE l1

\* for x, y < 240 the byte read, (x * y) >> 1, is inside image_buffer
LCD_Get_Pixel(l, x, y) ==
    LET pixel == U16(x * y)
    IN  IF pixel % 2 = 1
        THEN HighNibble(ByteAt(l.image_buffer, pixel \div 2)) \div 16
        ELSE LowNibble(ByteAt(l.image_buffer, pixel \div 2))

\* variant: only the low nibble of each byte gets the colour
LCD_Fill_Buffer_LowNibble(l, colour) ==
    [l EXCEPT !.track_changes = AllRows(1),
              !.image_buffer = ConstFill(U8(colour))]

LCD_Fill_Buffer(l, colour) ==
    [l EXCEPT !.track_changes = AllRows(1),
              !.image_buffer = ConstFill(U8(BitOr(colour, colour * 16)))]

\* rnd describes the values rand() returns in this call: its i-th value has the
\* low byte (rnd.mul * i + rnd.add) % 256
LCD_randomiseBuffer(l, rnd) ==
    [l EXCEPT !.image_buffer = [fill |-> rnd, over |-> [i \in {} |-> 0]]]

\* variant: the two nibbles of a byte are sent in the other order
LineBuffer_NibblesSwapped(l, row) ==
    [k \in 0 .. (ST7789V2_WIDTH - 1) |->
        LET double_pixel == ByteAt(l.image_buffer, 120 * row + (k \div 2))
        IN  IF k % 2 = 1 THEN ColourOf(l.colour_map, LowNibble(double_pixel))
            ELSE ColourOf(l.colour_map, double_pixel \div 16)]

\* line_buffer0 / line_buffer1 as filled for a row: 240 colours
LineBuffer(l, row) ==
    [k \in 0 .. (ST7789V2_WIDTH - 1) |->
        LET double_pixel == ByteAt(l.image_buffer, 120 * row + (k \div 2))
        IN  IF k % 2 = 0 THEN ColourOf(l.colour_map, LowNibble(double_pixel))
            ELSE ColourOf(l.colour_map, double_pixel \div 16)]

\* a row of the display as stored in the model: the colours of its pixels 0 and 1,
\* and every pixel that differs from the one of its parity
PanelRow(line) ==
    [even |-> line[0], odd |-> line[1],
     over |-> [x \in {k \in DOMAIN line : line[k] # line[k % 2]} |-> line[x]]]

\* the colour the display shows at x of a row stored as PanelRow
PanelColour(prow, x) ==
    IF x \in DOMAIN prow.over THEN prow.over[x]
    ELSE IF x % 2 = 0 THEN prow.even ELSE prow.odd

NeverSent == [even |-> -1, odd |-> -1, over |-> [x \in {} |-> 0]]

\* a test of the other buffer's turn
RefreshMustWait_Other(buf, b) == buf # b

\* if (!buf) before line_buffer0 is filled, if (buf) before line_buffer1: the wait for
\* the SPI is made when the last block sent came from the buffer about to be filled
RefreshMustWait(buf, b) == buf = b

\* LCD_Refresh on a set-up display (cfg->setup_done): the rows transmitted, in order,
\* the display after them and the statics
LCD_Refresh(l, pnl) ==
    LET dirty(r) == l.track_changes[r] # 0
    IN  [l |-> [l EXCEPT !.track_changes = [r \in Rows |-> IF dirty(r) THEN 0 ELSE @[r]]],
         panel |-> [r \in Rows |-> IF dirty(r) THEN PanelRow(LineBuffer(l, r)) ELSE pnl[r]],
         sent |-> SelectSeq([i \in 1 .. ST7789V2_HEIGHT |-> i - 1], dirty)]

LcdStart ==
    /\ image_buffer = LcdStatics.image_buffer
    /\ track_changes = LcdStatics.track_changes
    /\ colour_map = LcdStatics.colour_map
    /\ stray = LcdStatics.stray
    /\ panel = AllRows(NeverSent)

\* the LCD_Set_Pixel calls number from .. to of calls, a sequence of [x, y, colour],
\* in order: those of the first half, then those of the second half on the statics
\* the first half left
RECURSIVE SetPixelsFromTo(_, _, _, _, _)
SetPixelsFromTo(l, calls, from, to, lay) ==
    IF from > to THEN l
    ELSE IF from = to
    THEN LCD_Set_Pixel(l, calls[from].x, calls[from].y, calls[from].colour, lay)
    ELSE LET mid == (from + to) \div 2
         IN  CHOOSE after \in {SetPixelsFromTo(half, calls, mid + 1, to, lay) :
                                 half \in {SetPixelsFromTo(l, calls, from, mid, lay)}} : TRUE

SetPixels(l, calls, lay) == SetPixelsFromTo(l, calls, 1, Len(calls), lay)

RECURSIVE Concat(_)
Concat(seqs) == IF Len(seqs) = 0 THEN <<>> ELSE Head(seqs) \o Concat(Tail(seqs))

\* a loop variable held in a uint16_t
LineLoopNext_U16(i) == (i + 1) % 65536

\* x += step, step = 1, on the unsigned int loop variable of LCD_Draw_Line: it starts
\* at a uint16_t and stops beyond one, far below 2^32
LineLoopNext(i) == i + 1

\* the LCD_Set_Pixel calls of LCD_Draw_Line, in order.  The loop variable is an
\* unsigned int running from start while <= stop: no pass when start > stop
LinePixels(x0, y0, x1, y1, colour) ==
    LET y_range == Int16(y1 - y0)
        x_range == Int16(x1 - x0)
    IN  IF x_range = 0 /\ y_range = 0 THEN <<[x |-> x0, y |-> y0, colour |-> colour]>>
        ELSE IF Abs(x_range) > Abs(y_range)
        THEN LET start == IF x_range > 0 THEN x0 ELSE x1
                 stop == IF x_range > 0 THEN x1 ELSE x0
             IN  [k \in 1 .. (stop - start + 1) |->
                    LET x == start + (k - 1)
                        dx == Int16(x - x0)
                    IN  [x |-> x, y |-> U16(y0 + CQuot(y_range * dx, x_range)),
                         colour |-> colour]]
        ELSE LET start == IF y_range > 0 THEN y0 ELSE y1
                 stop == IF y_range > 0 THEN y1 ELSE y0
             IN  [k \in 1 .. (stop - start + 1) |->
                    LET y == start + (k - 1)
                        dy == Int16(y - y0)
                    IN  [x |-> U16(x0 + CQuot(x_range * dy, y_range)), y |-> y,
                         colour |-> colour]]

LCD_Draw_Line(l, x0, y0, x1, y1, colour, lay) ==
    SetPixels(l, LinePixels(x0, y0, x1, y1, colour), lay)

\* the LCD_Draw_Line calls of a shape, in order; lines is a sequence of [x0, y0, x1, y1].
\* A call changes the statics by its LCD_Set_Pixel calls only
DrawLines(l, lines, colour, lay) ==
    SetPixels(l, Concat([k \in DOMAIN lines |->
                  LinePixels(lines[k].x0, lines[k].y0, lines[k].x1, lines[k].y1, colour)]),
              lay)

\* the arguments of a call LCD_Draw_Line(ax, ay, bx, by, colour), int to uint16_t
LineArgs(ax, ay, bx, by) == [x0 |-> U16(ax), y0 |-> U16(ay), x1 |-> U16(bx), y1 |-> U16(by)]

LCD_Draw_Rect(l, x0, y0, width, height, colour, fill, lay) ==
    IF fill # 0
    THEN DrawLines(l, [k \in 1 .. height |->
                          LET y == y0 + (k - 1)
                          IN  LineArgs(x0, y, x0 + (width - 1), y)],
                   colour, lay)
    ELSE DrawLines(l, <<LineArgs(x0, y0, x0 + (width - 1), y0),
                        LineArgs(x0, y0 + (height - 1), x0 + (width - 1), y0 + (height - 1)),
                        LineArgs(x0, y0, x0, y0 + (height - 1)),
                        LineArgs(x0 + (width - 1), y0, x0 + (width - 1), y0 + (height - 1))>>,
                   colour, lay)

\* the values of (x, y) at the passes of the while loop of LCD_Draw_Circle
RECURSIVE CircleSteps(_, _, _)
CircleSteps(x, y, radiusError) ==
    IF x >= y
    THEN <<[x |-> x, y |-> y]>> \o
         (IF radiusError < 0
          THEN CircleSteps(x, y + 1, radiusError + 2 * (y + 1) + 1)
          ELSE CircleSteps(x - 1, y + 1, radiusError + 2 * ((y + 1) - (x - 1)) + 1))
    ELSE <<>>

LCD_Draw_Circle(l, x0, y0, radius, colour, fill, lay) ==
    LET steps == CircleSteps(radius, 0, 1 - radius)
        at(ax, ay) == [x |-> U16(ax), y |-> U16(ay), colour |-> colour]
    IN  IF fill = 0
        THEN SetPixels(l, Concat([k \in DOMAIN steps |->
                 LET x == steps[k].x
                     y == steps[k].y
                 IN  <<at(x + x0, y + y0), at(-x + x0, y + y0),
                       at(y + x0, x + y0), at(-y + x0, x + y0),
                       at(-y + x0, -x + y0), at(y + x0, -x + y0),
                       at(x + x0, -y + y0), at(-x + x0, -y + y0)>>]),
                 lay)
        ELSE DrawLines(l, Concat([k \in DOMAIN steps |->
                 LET x == steps[k].x
                     y == steps[k].y
                 IN  <<LineArgs(x + x0, y + y0, -x + x0, y + y0),
                       LineArgs(y + x0, x + y0, -y + x0, x + y0),
                       LineArgs(y + x0, -x + y0, -y + x0, -x + y0),
                       LineArgs(x + x0, -y + y0, -x + x0, -y + y0)>>]),
                 colour, lay)

\* sprite is the sequence of the nrows * ncols cells the pointer refers to, row by row:
\* *((sprite + i * ncols) + j)
SpriteCell(sprite, ncols, i, j) == sprite[i * ncols + j + 1]

\* the LCD_Set_Pixel calls of the dy / dx loops: a scale x scale block, row by row
ScaleBlock(base_x, base_y, scale, colour) ==
    [m \in 1 .. (scale * scale) |->
        LET dy == (m - 1) \div scale
            dx == (m - 1) % scale
        IN  [x |-> U16(base_x + dx), y |-> U16(base_y + dy), colour |-> U8(colour)]]

\* variant: the cells holding 255 are drawn like the others
LCD_Draw_Sprite_Scaled_Opaque(l, x0, y0, nrows, ncols, sprite, scale, lay) ==
    IF scale = 0 THEN l
    ELSE SetPixels(l, Concat([k \in 1 .. (nrows * ncols) |->
             LET i == (k - 1) \div ncols
                 j == (k - 1) % ncols
                 pixel == SpriteCell(sprite, ncols, i, j)
             IN  ScaleBlock(U16(x0 + j * scale), U16(y0 + i * scale), scale, pixel)]),
             lay)

LCD_Draw_Sprite_Scaled(l, x0, y0, nrows, ncols, sprite, scale, lay) ==
    IF scale = 0 THEN l
    ELSE SetPixels(l, Concat([k \in 1 .. (nrows * ncols) |->
             LET i == (k - 1) \div ncols
                 j == (k - 1) % ncols
                 pixel == SpriteCell(sprite, ncols, i, j)
             IN  IF pixel # TRANSPARENT
                 THEN ScaleBlock(U16(x0 + j * scale), U16(y0 + i * scale), scale, pixel)
                 ELSE <<>>]),
             lay)

LCD_Draw_Sprite(l, x0, y0, nrows, ncols, sprite, lay) ==
    LCD_Draw_Sprite_Scaled(l, x0, y0, nrows, ncols, sprite, 1, lay)

LCD_Draw_Sprite_Colour(l, x0, y0, nrows, ncols, sprite, colour, lay) ==
    SetPixels(l, Concat([k \in 1 .. (nrows * ncols) |->
        LET i == (k - 1) \div ncols
            j == (k - 1) % ncols
            pixel == SpriteCell(sprite, ncols, i, j)
        IN  IF pixel # TRANSPARENT
            THEN <<[x |-> U16(x0 + j), y |-> U16(y0 + i), colour |-> colour]>>
            ELSE <<>>]),
        lay)

LCD_Draw_Sprite_Colour_Scaled(l, x0, y0, nrows, ncols, sprite, colour, scale, lay) ==
    IF scale = 0 THEN l
    ELSE SetPixels(l, Concat([k \in 1 .. (nrows * ncols) |->
             LET i == (k - 1) \div ncols
                 j == (k - 1) % ncols
                 pixel == SpriteCell(sprite, ncols, i, j)
             IN  IF pixel # TRANSPARENT
                 THEN ScaleBlock(U16(x0 + j * scale), U16(y0 + i * scale), scale, colour)
                 ELSE <<>>]),
             lay)

----------------------------------------------------------------------------
(* Joystick.c.  A float is held in thousandths, as the velocities are: an  *)
(* angle of 22.5 degrees is 22500 and a magnitude of 0.05f is 50.  NaN is  *)
(* what 0.0f / 0.0f gives and Infinity what a positive number divided by   *)
(* 0.0f gives (IEEE 754, which the target's FPU implements without a       *)
(* trap): every comparison with NaN is false and every operation on NaN    *)
(* gives NaN.                                                              *)

NaN == -2147483647
Infinity == 2000000000

FLess(a, b) == a # NaN /\ b # NaN /\ a < b
FGreater(a, b) == a # NaN /\ b # NaN /\ a > b
FGeq(a, b) == a # NaN /\ b # NaN /\ a >= b
FNeg(a) == IF a = NaN THEN NaN ELSE -a
FAdd(a, b) == IF a = NaN \/ b = NaN THEN NaN ELSE a + b
FSub(a, b) == IF a = NaN \/ b = NaN THEN NaN ELSE a - b
FMul(a, b) == IF a = NaN \/ b = NaN THEN NaN ELSE CDiv(a * b, 1000)
FHalf(a) == IF a = NaN THEN NaN ELSE CDiv(a, 2)

\* (float)x / (float)c for integers x and c >= 0
FDivInt(x, c) ==
    IF c # 0 THEN CDiv(x * 1000, c)
    ELSE IF x = 0 THEN NaN
    ELSE IF x > 0 THEN Infinity ELSE -Infinity

sqrtf(a) ==
    IF a = NaN \/ a < 0 THEN NaN
    ELSE CHOOSE r \in 0..1500 : r * r <= a * 1000 /\ (r + 1) * (r + 1) > a * 1000

\* the arc tangent of t / 1000, 0 <= t <= 1000, in thousandths of a degree:
\* 45 t - t (t - 1) (14.02 + 3.80 t), within 0.1 degree, exact for t = 0 and t = 1000
AtanUnit(t) == 45 * t - CDiv(CDiv(t * (t - 1000), 1000) * (14020 + CDiv(38 * t, 10)), 1000)

\* RAD2DEG * atan2f(y, x), in (-180000, 180000]; exact on the axes and the diagonals
Atan2Degrees(y, x) ==
    IF y = NaN \/ x = NaN THEN NaN
    ELSE LET ax == Abs(x)
             ay == Abs(y)
             a == IF ax = 0 /\ ay = 0 THEN 0
                  ELSE IF ay <= ax THEN AtanUnit(CDiv(ay * 1000, ax))
                  ELSE 90000 - AtanUnit(CDiv(ax * 1000, ay))
         IN  IF x >= 0 THEN (IF y >= 0 THEN a ELSE -a)
             ELSE (IF y >= 0 THEN 180000 - a ELSE a - 180000)

\* the centre is the mean of calibration_samples = 50 readings; xs and ys are the
\* readings of the two channels while the stick rests
Joystick_Calibrate(c, xs, ys) ==
    [c EXCEPT !.center_x = ((50 * xs) \div 50) % 65536,
              !.center_y = ((50 * ys) \div 50) % 65536]

\* variant: the sectors start at the compass points
Joystick_GetDirection_FromPoint(angle, magnitude) ==
    IF FLess(angle, 0) \/ FLess(magnitude, 50) THEN "CENTRE"
    ELSE IF FLess(angle, 45000) THEN "N"
    ELSE IF FLess(angle, 90000) THEN "NE"
    ELSE IF FLess(angle, 135000) THEN "E"
    ELSE IF FLess(angle, 180000) THEN "SE"
    ELSE IF FLess(angle, 225000) THEN "S"
    ELSE IF FLess(angle, 270000) THEN "SW"
    ELSE IF FLess(angle, 315000) THEN "W"
    ELSE "NW"

\* variant: the magnitude is not looked at
Joystick_GetDirection_AnyMagnitude(angle, magnitude) ==
    IF FLess(angle, 0) THEN "CENTRE"
    ELSE IF FGeq(angle, 337500) \/ FLess(angle, 22500) THEN "N"
    ELSE IF FGeq(angle, 22500) /\ FLess(angle, 67500) THEN "NE"
    ELSE IF FGeq(angle, 67500) /\ FLess(angle, 112500) THEN "E"
    ELSE IF FGeq(angle, 112500) /\ FLess(angle, 157500) THEN "SE"
    ELSE IF FGeq(angle, 157500) /\ FLess(angle, 202500) THEN "S"
    ELSE IF FGeq(angle, 202500) /\ FLess(angle, 247500) THEN "SW"
    ELSE IF FGeq(angle, 247500) /\ FLess(angle, 292500) THEN "W"
    ELSE "NW"

Joystick_GetDirection(angle, magnitude) ==
    IF FLess(angle, 0) \/ FLess(magnitude, 50) THEN "CENTRE"
    ELSE IF FGeq(angle, 337500) \/ FLess(angle, 22500) THEN "N"
    ELSE IF FGeq(angle, 22500) /\ FLess(angle, 67500) THEN "NE"
    ELSE IF FGeq(angle, 67500) /\ FLess(angle, 112500) THEN "E"
    ELSE IF FGeq(angle, 112500) /\ FLess(angle, 157500) THEN "SE"
    ELSE IF FGeq(angle, 157500) /\ FLess(angle, 202500) THEN "S"
    ELSE IF FGeq(angle, 202500) /\ FLess(angle, 247500) THEN "SW"
    ELSE IF FGeq(angle, 247500) /\ FLess(angle, 292500) THEN "W"
    ELSE "NW"

Joystick_GetCoord(x, y, center_x, center_y) ==
    LET norm_x == FDivInt(x, center_x)
        norm_y == FDivInt(y, center_y)
        x1 == IF FGreater(norm_x, 1000) THEN 1000 ELSE norm_x
        x2 == IF FLess(x1, -1000) THEN -1000 ELSE x1
        y1 == IF FGreater(norm_y, 1000) THEN 1000 ELSE norm_y
        y2 == IF FLess(y1, -1000) THEN -1000 ELSE y1
    IN  [x |-> x2, y |-> FNeg(y2)]

Joystick_MapToCircle(coord) ==
    [x |-> FMul(coord.x, sqrtf(FSub(1000, FHalf(FMul(coord.y, coord.y))))),
     y |-> FMul(coord.y, sqrtf(FSub(1000, FHalf(FMul(coord.x, coord.x)))))]

Joystick_GetPolar(data) ==
    LET x == data.coord_mapped.y
        y == data.coord_mapped.x
        mag == sqrtf(FAdd(FMul(x, x), FMul(y, y)))
        angle == Atan2Degrees(y, x)
        turned == IF FLess(angle, 0) THEN FAdd(angle, 360000) ELSE angle
    IN  [mag |-> mag, angle |-> IF FLess(mag, 10) THEN -1000 ELSE turned]

\* x_raw and y_raw are the two values HAL_ADC_GetValue returns
Joystick_Read(c, x_raw, y_raw) ==
    LET x_centred == Int16(x_raw - c.center_x)
        y_centred == Int16(y_raw - c.center_y)
        x_processed == IF Abs(x_centred) < c.deadzone THEN 0 ELSE x_centred
        y_processed == IF Abs(y_centred) < c.deadzone THEN 0 ELSE y_centred
        coord == Joystick_GetCoord(x_processed, y_processed, c.center_x, c.center_y)
        coord_mapped == Joystick_MapToCircle(coord)
        p == Joystick_GetPolar([coord_mapped |-> coord_mapped])
    IN  [x_raw |-> x_raw, y_raw |-> y_raw,
         x_processed |-> x_processed, y_processed |-> y_processed,
         coord |-> coord, coord_mapped |-> coord_mapped,
         angle |-> p.angle, magnitude |-> p.mag,
         direction |-> Joystick_GetDirection(p.angle, p.mag)]

----------------------------------------------------------------------------
(* PWM.c.  p is the PWM_cfg_t with the two registers of its timer channel: *)
(* arr (auto-reload, __HAL_TIM_SET_AUTORELOAD) and ccr (compare,           *)
(* __HAL_TIM_SET_COMPARE).  HAL_TIM_PWM_Start and HAL_TIM_PWM_Stop switch  *)
(* the output, which pwm_started follows.                                   *)

PWM_Init(p) ==
    IF ~p.setup_done
    THEN [p EXCEPT !.pwm_started = FALSE, !.last_duty = 0, !.setup_done = TRUE]
    ELSE p

PWM_IsRunning(p) == IF p.pwm_started THEN 1 ELSE 0

PWM_Off(p) ==
    LET p1 == IF p.pwm_started THEN [p EXCEPT !.ccr = 0, !.pwm_started = FALSE] ELSE p
    IN  [p1 EXCEPT !.last_duty = 0]

apply_duty_at_current_frequency(p, duty_percent) ==
    LET arr == p.arr
        top == arr + 1
        duty == clamp_u32(duty_percent, 0, 100) % 256
        ccr == (top * duty) \div 100
    IN  [p EXCEPT !.ccr = IF ccr > arr THEN arr ELSE ccr]

\* (tick_freq_hz / freq_hz) - 1u, clamped to 1..65535; 0u - 1u is 2^32 - 1
PeriodFor(p, freq_hz) ==
    LET q == p.tick_freq_hz \div freq_hz
    IN  IF q = 0 THEN 65535 ELSE clamp_u32(q - 1, 1, 65535)

\* variant: the compare register is left as it was
PWM_SetFreq_KeepsCompare(p, freq_hz) ==
    LET p1 == IF ~p.setup_done THEN PWM_Init(p) ELSE p
        f == clamp_u32(freq_hz, p1.min_freq_hz, p1.max_freq_hz)
    IN  [p1 EXCEPT !.arr = PeriodFor(p1, f)]

\* variant: the output is started
PWM_SetFreq_Starts(p, freq_hz) ==
    LET p1 == IF ~p.setup_done THEN PWM_Init(p) ELSE p
        f == clamp_u32(freq_hz, p1.min_freq_hz, p1.max_freq_hz)
        p2 == [p1 EXCEPT !.arr = PeriodFor(p1, f), !.pwm_started = TRUE]
    IN  IF p2.last_duty > 0 THEN apply_duty_at_current_frequency(p2, p2.last_duty) ELSE p2

PWM_SetFreq(p, freq_hz) ==
    LET p1 == IF ~p.setup_done THEN PWM_Init(p) ELSE p
        f == clamp_u32(freq_hz, p1.min_freq_hz, p1.max_freq_hz)
        p2 == [p1 EXCEPT !.arr = PeriodFor(p1, f)]
    IN  IF p2.pwm_started /\ p2.last_duty > 0
        THEN apply_duty_at_current_frequency(p2, p2.last_duty)
        ELSE p2

PWM_SetDuty(p, duty_percent) ==
    LET p1 == IF ~p.setup_done THEN PWM_Init(p) ELSE p
    IN  IF duty_percent = 0 THEN PWM_Off(p1)
        ELSE apply_duty_at_current_frequency(
                 [p1 EXCEPT !.pwm_started = TRUE, !.last_duty = duty_percent], duty_percent)

PWM_Set(p, freq_hz, duty_percent) ==
    IF duty_percent = 0 \/ freq_hz = 0 THEN PWM_Off(p)
    ELSE PWM_SetDuty(PWM_SetFreq(p, freq_hz), duty_percent)

PWM_SetTicks(p, on_ticks, off_ticks) ==
    LET p1 == IF ~p.setup_done THEN PWM_Init(p) ELSE p
    IN  IF on_ticks = 0 THEN PWM_Off(p1)
        ELSE LET on == clamp_u32(on_ticks, 1, 65535)
                 off == clamp_u32(off_ticks, 1, 65535)
                 total_ticks == on + off
                 arr == clamp_u32(total_ticks - 1, 1, 65535)
                 ccr == clamp_u32(on - 1, 0, arr)
                 duty_percent_approx == (100 * on) \div total_ticks
             IN  [p1 EXCEPT !.arr = arr, !.pwm_started = TRUE, !.ccr = ccr,
                            !.last_duty = clamp_u32(duty_percent_approx, 0, 100) % 256]

\* the joystick before its first call, configured with the defaults of Joystick.h
JoystickStart ==
    [cfg |-> [center_x |-> JOYSTICK_DEFAULT_CENTER_X,
              center_y |-> JOYSTICK_DEFAULT_CENTER_Y,
              deadzone |-> JOYSTICK_DEADZONE]]

\* the PWM before its first call, configured as in PWM.h for a timer of the given
\* tick frequency, the timer registers at their reset values
PwmStart(tick_freq_hz) ==
    [tick_freq_hz |-> tick_freq_hz, min_freq_hz |-> 10, max_freq_hz |-> 50000,
     setup_done |-> FALSE, pwm_started |-> FALSE, last_duty |-> 0,
     arr |-> 65535, ccr |-> 0]

IoStart ==
    /\ joystick = JoystickStart
    /\ pwm = PwmStart(1000000)

----------------------------------------------------------------------------
(* Inputs *)

\* PongEngine_Init arguments of a session
Configs ==
    {[paddle_x |-> 2, paddle_y |-> 100, paddle_width |-> 5, paddle_height |-> 40,
      ball_size |-> 8, ball_speed |-> 10],
     [paddle_x |-> 10, paddle_y |-> 100, paddle_width |-> 5, paddle_height |-> 40,
      ball_size |-> 8, ball_speed |-> 8]}

\* outcomes of HAL_RNG_GenerateRandomNumber: a failure, and words giving both ends of the range
RngOutcomes == {[ok |-> FALSE, rnd |-> 0], [ok |-> TRUE, rnd |-> 0], [ok |-> TRUE, rnd |-> 40 + 41 * 1000]}

\* milliseconds between two calls of PongEngine_Update
LoopPeriods == {30}

\* joystick directions of a played session: one that moves the paddle up, one that
\* moves it down and one that leaves it (all nine are used on the paddle alone below)
PlayDirections == {"CENTRE", "N", "SE"}

----------------------------------------------------------------------------
(* State machine of a game session *)

NoFrame == [op |-> "PongEngine_Init"]

PongStart(c) ==
    LET e == PongEngine_Init(c)
    IN  /\ cfg = c
        /\ ball = e.ball
        /\ paddle = e.paddle
        /\ lives = e.lives
        /\ buzzer = [setup_done |-> FALSE, pwm_started |-> FALSE, arr |-> 0, ccr |-> 0]
        /\ buzzer_stop_tick = U32(0)
        /\ tick = U32(0)

InitWith(c) ==
    /\ PongStart(c)
    /\ frame = NoFrame
    /\ LcdStart
    /\ IoStart

Init == \E c \in Configs : InitWith(c)

World(now) ==
    [ball |-> ball, paddle |-> paddle, lives |-> lives, buzzer |-> buzzer,
     buzzer_stop_tick |-> buzzer_stop_tick, now |-> now, events |-> <<>>,
     moved |-> ball, walled |-> ball, paddled |-> ball, ret |-> lives]

\* the main loop calls PongEngine_Update(&engine, input), dt ms after the previous call
UpdateWithin(limit, d, r1, r2, dt) ==
    /\ tick.hi = 0 /\ tick.lo < limit
    /\ LET w == PongEngine_Update(World(U32_Add(tick, dt)), [direction |-> d], r1, r2)
       IN  /\ ball' = w.ball
           /\ paddle' = w.paddle
           /\ lives' = w.lives
           /\ buzzer' = w.buzzer
           /\ buzzer_stop_tick' = w.buzzer_stop_tick
           /\ tick' = w.now
           /\ frame' = [op |-> "PongEngine_Update", input |-> d, moved |-> w.moved,
                        walled |-> w.walled, paddled |-> w.paddled, events |-> w.events,
                        ret |-> w.ret]
    /\ UNCHANGED <<ioVars, cfg, lcdVars>>

\* HAL_RNG_GenerateRandomNumber is called, twice, only in a call that reaches the
\* ball reset of PongEngine_CheckGoal; in any other call nothing is drawn
NoDraw == [ok |-> TRUE, rnd |-> 0]

ResetReached(d, dt) ==
    LET w == PongEngine_Update(World(U32_Add(tick, dt)), [direction |-> d], NoDraw, NoDraw)
    IN  \E i \in DOMAIN w.events : w.events[i].ev = "goal"

Draws(d, dt) == IF ResetReached(d, dt) THEN RngOutcomes ELSE {NoDraw}

Update == \E d \in PlayDirections, dt \in LoopPeriods :
              \E r1 \in Draws(d, dt), r2 \in Draws(d, dt) :
                  UpdateWithin(MaxFrames * 30, d, r1, r2, dt)

Next == Update

Spec == Init /\ [][Next]_vars

----------------------------------------------------------------------------
(* A session in which the joystick is left centred *)

IdleUpdate == \E dt \in LoopPeriods :
                  \E r1 \in Draws("CENTRE", dt), r2 \in Draws("CENTRE", dt) :
                      UpdateWithin(MaxIdleFrames * 30, "CENTRE", r1, r2, dt)

NextIdle == IdleUpdate

SpecIdle == Init /\ [][NextIdle]_vars

----------------------------------------------------------------------------
(* The paddle alone: Paddle_Init with any arguments, then Paddle_Update calls *)

PaddleStartYs == {-7, 0, 100, 236}
PaddleHeights == {1, 40, 240}
PaddleSpeeds == {3, 6}

InitPaddle ==
    \E y \in PaddleStartYs, h \in PaddleHeights, sp \in PaddleSpeeds :
        /\ cfg = [paddle_x |-> 10, paddle_y |-> y, paddle_width |-> 5, paddle_height |-> h,
                  paddle_speed |-> sp]
        /\ paddle = Paddle_Init(10, y, 5, h, sp)
        /\ ball = Ball_Init(8, 8)
        /\ lives = INITIAL_LIVES
        /\ buzzer = [setup_done |-> FALSE, pwm_started |-> FALSE, arr |-> 0, ccr |-> 0]
        /\ buzzer_stop_tick = U32(0)
        /\ tick = U32(0)
        /\ frame = [op |-> "Paddle_Init"]
        /\ LcdStart
        /\ IoStart

PaddleUpdateCall ==
    \E d \in Direction :
        /\ paddle' = Paddle_Update(paddle, [direction |-> d])
        /\ frame' = [op |-> "Paddle_Update", input |-> d]
        /\ UNCHANGED <<ioVars, cfg, ball, lives, buzzer, buzzer_stop_tick, tick, lcdVars>>

NextPaddle == PaddleUpdateCall

SpecPaddle == InitPaddle /\ [][NextPaddle]_vars

----------------------------------------------------------------------------
(* Scenarios: before the first frame the application places the ball with  *)
(* Ball_SetPos and Ball_SetVelocity (Ball.h), then runs a few frames.      *)

ScenarioFrames == 3
ScenarioXs == {-1, 3, 116, 229}
ScenarioYs == {3, 116, 150, 229}

SetPosCall ==
    \E x \in ScenarioXs, y \in ScenarioYs :
        /\ tick = U32(0)
        /\ ball' = Ball_SetPos(ball, [x |-> x, y |-> y])
        /\ frame' = [op |-> "Ball_SetPos"]
        /\ UNCHANGED <<ioVars, cfg, paddle, lives, buzzer, buzzer_stop_tick, tick, lcdVars>>

\* the velocity set keeps the magnitude of Ball_Init and picks the direction
SetVelocityCall ==
    \E sx \in {-1, 1}, sy \in {-1, 1} :
        /\ tick = U32(0)
        /\ ball' = Ball_SetVelocity(ball, sx * cfg.ball_speed * DIAG_707,
                                    sy * cfg.ball_speed * DIAG_707)
        /\ frame' = [op |-> "Ball_SetVelocity"]
        /\ UNCHANGED <<ioVars, cfg, paddle, lives, buzzer, buzzer_stop_tick, tick, lcdVars>>

ScenarioUpdate == \E d \in PlayDirections, dt \in LoopPeriods :
                      \E r1 \in Draws(d, dt), r2 \in Draws(d, dt) :
                          UpdateWithin(ScenarioFrames * 30, d, r1, r2, dt)

NextScenario == SetPosCall \/ SetVelocityCall \/ ScenarioUpdate

SpecScenario == Init /\ [][NextScenario]_vars

----------------------------------------------------------------------------
(* AABB_Collides alone: called on two rectangles, in both orders *)

Rects ==
    {[x |-> x, y |-> y, width |-> w, height |-> 5] : x \in {0, 5, 10}, y \in {0, 5, 10}, w \in {5, 10}}

AABBCall ==
    \E a \in Rects, b \in Rects :
        /\ frame' = [op |-> "AABB_Collides", a |-> a, b |-> b,
                     ret |-> AABB_Collides(a, b), swapped |-> AABB_Collides(b, a)]
        /\ UNCHANGED <<ioVars, pongVars, lcdVars>>

NextAABB == AABBCall

SpecAABB == Init /\ [][NextAABB]_vars

----------------------------------------------------------------------------
(* The display: the application, after LCD_init, calls the buffer          *)
(* operations and LCD_Refresh in any order.  frame.n counts the calls.     *)

MaxLcdCalls == 3

LcdPixels == {[x |-> 3, y |-> 2], [x |-> 239, y |-> 239]}
LcdColours == {5}
FillColours == {7}
PaletteIds == {0, 1, 2, 3, 4, 255}
RandSequences == {[mul |-> 37, add |-> 11]}

Statics == [image_buffer |-> image_buffer, track_changes |-> track_changes,
            colour_map |-> colour_map, stray |-> stray]

SetStatics(l) ==
    /\ image_buffer' = l.image_buffer
    /\ track_changes' = l.track_changes
    /\ colour_map' = l.colour_map
    /\ stray' = l.stray

InitLCD ==
    /\ PongStart(CHOOSE c \in Configs : c.ball_speed = 10)
    /\ LcdStart
    /\ IoStart
    /\ frame = [op |-> "LCD_init", n |-> 0]

SetPixelCall(limit, pixels, colours) ==
    \E p \in pixels, c \in colours, lay \in {"elsewhere", "image_buffer"} :
        /\ frame.n < limit
        /\ p.y < ST7789V2_HEIGHT => lay = "elsewhere"
        /\ SetStatics(LCD_Set_Pixel(Statics, p.x, p.y, c, lay))
        /\ frame' = [op |-> "LCD_Set_Pixel", n |-> frame.n + 1, x |-> p.x, y |-> p.y, colour |-> c]
        /\ UNCHANGED <<ioVars, pongVars, panel>>

ClearCall(limit) ==
    /\ frame.n < limit
    /\ SetStatics(LCD_clear(Statics))
    /\ frame' = [op |-> "LCD_clear", n |-> frame.n + 1]
    /\ UNCHANGED <<ioVars, pongVars, panel>>

FillBufferCall(limit, colours) ==
    \E c \in colours :
        /\ frame.n < limit
        /\ SetStatics(LCD_Fill_Buffer(Statics, c))
        /\ frame' = [op |-> "LCD_Fill_Buffer", n |-> frame.n + 1, colour |-> c]
        /\ UNCHANGED <<ioVars, pongVars, panel>>

SetPaletteCall ==
    \E id \in PaletteIds :
        /\ frame.n < MaxLcdCalls
        /\ SetStatics(LCD_Set_Palette(Statics, id))
        /\ frame' = [op |-> "LCD_Set_Palette", n |-> frame.n + 1, palette |-> id]
        /\ UNCHANGED <<ioVars, pongVars, panel>>

RandomiseCall ==
    \E rnd \in RandSequences :
        /\ frame.n < MaxLcdCalls
        /\ SetStatics(LCD_randomiseBuffer(Statics, rnd))
        /\ frame' = [op |-> "LCD_randomiseBuffer", n |-> frame.n + 1]
        /\ UNCHANGED <<ioVars, pongVars, panel>>

RefreshCall ==
    /\ frame.n < MaxLcdCalls
    /\ LET r == LCD_Refresh(Statics, panel)
       IN  /\ SetStatics(r.l)
           /\ panel' = r.panel
           /\ frame' = [op |-> "LCD_Refresh", n |-> frame.n + 1, sent |-> r.sent]
    /\ UNCHANGED <<ioVars, pongVars>>

NextLCD ==
    \/ SetPixelCall(MaxLcdCalls, LcdPixels, LcdColours)
    \/ ClearCall(MaxLcdCalls)
    \/ FillBufferCall(MaxLcdCalls, FillColours)
    \/ SetPaletteCall
    \/ RandomiseCall
    \/ RefreshCall

SpecLCD == InitLCD /\ [][NextLCD]_vars

----------------------------------------------------------------------------
(* Single pixels: LCD_Set_Pixel with coordinates inside and outside the    *)
(* buffer, and LCD_Get_Pixel                                                *)

MaxPixelCalls == 3

PixelInputs ==
    {[x |-> 0, y |-> 0], [x |-> 3, y |-> 2], [x |-> 6, y |-> 0], [x |-> 239, y |-> 239],
     [x |-> 240, y |-> 5], [x |-> 5, y |-> 240], [x |-> 65535, y |-> 65535]}
PixelColours == {5, 12}

InRange(p) == p.x < ST7789V2_WIDTH /\ p.y < ST7789V2_HEIGHT

GetPixelCall ==
    \E p \in {q \in PixelInputs : InRange(q)} :
        /\ frame.n < MaxPixelCalls
        /\ frame' = [op |-> "LCD_Get_Pixel", n |-> frame.n + 1, x |-> p.x, y |-> p.y,
                     ret |-> LCD_Get_Pixel(Statics, p.x, p.y)]
        /\ UNCHANGED <<ioVars, pongVars, lcdVars>>

NextPixel ==
    \/ SetPixelCall(MaxPixelCalls, PixelInputs, PixelColours)
    \/ GetPixelCall

SpecPixel == InitLCD /\ [][NextPixel]_vars

----------------------------------------------------------------------------
(* Shapes: lines, rectangles and circles inside the buffer and across each *)
(* of its edges.  A coordinate left of or above the buffer is the uint16_t *)
(* the application's negative int converts to.                             *)

MaxDrawCalls == 2

LineInputs ==
    {LineArgs(2, 3, 9, 6), LineArgs(9, 6, 2, 3), LineArgs(-3, 10, 4, 10),
     LineArgs(236, 20, 243, 20), LineArgs(5, 237, 5, 242), LineArgs(7, -2, 7, 3)}
RectInputs ==
    {[x0 |-> U16(10), y0 |-> U16(10), width |-> 4, height |-> 2],
     [x0 |-> U16(-3), y0 |-> U16(10), width |-> 8, height |-> 2],
     [x0 |-> U16(236), y0 |-> U16(30), width |-> 8, height |-> 2],
     [x0 |-> U16(50), y0 |-> U16(238), width |-> 3, height |-> 4],
     [x0 |-> U16(60), y0 |-> U16(-1), width |-> 3, height |-> 3]}
CircleInputs ==
    {[x0 |-> 100, y0 |-> 100, radius |-> 3], [x0 |-> 2, y0 |-> 100, radius |-> 4],
     [x0 |-> 238, y0 |-> 100, radius |-> 3], [x0 |-> 100, y0 |-> 1, radius |-> 3],
     [x0 |-> 100, y0 |-> 238, radius |-> 3]}
DrawColours == {5}
Fills == {0, 1}
Lays == {"elsewhere", "image_buffer"}

DrawLineCall ==
    \E a \in LineInputs, c \in DrawColours, lay \in Lays :
        /\ frame.n < MaxDrawCalls
        /\ SetStatics(LCD_Draw_Line(Statics, a.x0, a.y0, a.x1, a.y1, c, lay))
        /\ frame' = [op |-> "LCD_Draw_Line", n |-> frame.n + 1, x0 |-> a.x0, y0 |-> a.y0,
                     x1 |-> a.x1, y1 |-> a.y1, colour |-> c]
        /\ UNCHANGED <<ioVars, pongVars, panel>>

DrawRectCall ==
    \E a \in RectInputs, c \in DrawColours, fill \in Fills, lay \in Lays :
        /\ frame.n < MaxDrawCalls
        /\ SetStatics(LCD_Draw_Rect(Statics, a.x0, a.y0, a.width, a.height, c, fill, lay))
        /\ frame' = [op |-> "LCD_Draw_Rect", n |-> frame.n + 1, x0 |-> a.x0, y0 |-> a.y0,
                     width |-> a.width, height |-> a.height, colour |-> c, fill |-> fill]
        /\ UNCHANGED <<ioVars, pongVars, panel>>

DrawCircleCall ==
    \E a \in CircleInputs, c \in DrawColours, fill \in Fills, lay \in Lays :
        /\ frame.n < MaxDrawCalls
        /\ SetStatics(LCD_Draw_Circle(Statics, a.x0, a.y0, a.radius, c, fill, lay))
        /\ frame' = [op |-> "LCD_Draw_Circle", n |-> frame.n + 1, x0 |-> a.x0, y0 |-> a.y0,
                     radius |-> a.radius, colour |-> c, fill |-> fill]
        /\ UNCHANGED <<ioVars, pongVars, panel>>

NextDraw ==
    \/ DrawLineCall
    \/ DrawRectCall
    \/ DrawCircleCall

SpecDraw == InitLCD /\ [][NextDraw]_vars

----------------------------------------------------------------------------
(* Sprites: the four blits, with sprites that are transparent in all, some *)
(* or none of their cells, at positions inside and across the buffer, at   *)
(* scales from 0 up; the scale 255 with the all-transparent sprites.       *)

MaxSpriteCalls == 2

Sprites ==
    {[nrows |-> 2, ncols |-> 2, cells |-> <<255, 255, 255, 255>>],
     [nrows |-> 2, ncols |-> 2, cells |-> <<255, 3, 7, 255>>],
     [nrows |-> 1, ncols |-> 1, cells |-> <<9>>]}
SpritePositions ==
    {[x |-> 3, y |-> 2], [x |-> 238, y |-> 239], [x |-> 65535, y |-> 5]}
SpriteScales == {0, 1, 2}
SpriteColours == {5}

AllTransparent(s) == \A k \in DOMAIN s.cells : s.cells[k] = TRANSPARENT

ScalesFor(s) == IF AllTransparent(s) THEN SpriteScales \cup {255} ELSE SpriteScales

DrawSpriteCall ==
    \E s \in Sprites, p \in SpritePositions, lay \in Lays :
        /\ frame.n < MaxSpriteCalls
        /\ SetStatics(LCD_Draw_Sprite(Statics, p.x, p.y, s.nrows, s.ncols, s.cells, lay))
        /\ frame' = [op |-> "LCD_Draw_Sprite", n |-> frame.n + 1, x0 |-> p.x, y0 |-> p.y,
                     sprite |-> s]
        /\ UNCHANGED <<ioVars, pongVars, panel>>

DrawSpriteScaledCall ==
    \E s \in Sprites, p \in SpritePositions, lay \in Lays :
        \E scale \in ScalesFor(s) :
            /\ frame.n < MaxSpriteCalls
            /\ SetStatics(LCD_Draw_Sprite_Scaled(Statics, p.x, p.y, s.nrows, s.ncols,
                                                 s.cells, scale, lay))
            /\ frame' = [op |-> "LCD_Draw_Sprite_Scaled", n |-> frame.n + 1, x0 |-> p.x,
                         y0 |-> p.y, sprite |-> s, scale |-> scale]
            /\ UNCHANGED <<ioVars, pongVars, panel>>

DrawSpriteColourCall ==
    \E s \in Sprites, p \in SpritePositions, c \in SpriteColours, lay \in Lays :
        /\ frame.n < MaxSpriteCalls
        /\ SetStatics(LCD_Draw_Sprite_Colour(Statics, p.x, p.y, s.nrows, s.ncols, s.cells,
                                             c, lay))
        /\ frame' = [op |-> "LCD_Draw_Sprite_Colour", n |-> frame.n + 1, x0 |-> p.x,
                     y0 |-> p.y, sprite |-> s, colour |-> c]
        /\ UNCHANGED <<ioVars, pongVars, panel>>

DrawSpriteColourScaledCall ==
    \E s \in Sprites, p \in SpritePositions, c \in SpriteColours, lay \in Lays :
        \E scale \in ScalesFor(s) :
            /\ frame.n < MaxSpriteCalls
            /\ SetStatics(LCD_Draw_Sprite_Colour_Scaled(Statics, p.x, p.y, s.nrows, s.ncols,
                                                        s.cells, c, scale, lay))
            /\ frame' = [op |-> "LCD_Draw_Sprite_Colour_Scaled", n |-> frame.n + 1,
                         x0 |-> p.x, y0 |-> p.y, sprite |-> s, colour |-> c, scale |-> scale]
            /\ UNCHANGED <<ioVars, pongVars, panel>>

NextSprite ==
    \/ DrawSpriteCall
    \/ DrawSpriteScaledCall
    \/ DrawSpriteColourCall
    \/ DrawSpriteColourScaledCall

SpecSprite == InitLCD /\ [][NextSprite]_vars

----------------------------------------------------------------------------
(* Cue timing: a session started any time after boot, HAL_GetTick being     *)
(* near 0, near 2^31 or near its wrap-around, the main loop calling         *)
(* PongEngine_Update at varying periods.  frame.n counts the calls and      *)
(* frame.cue is HAL_GetTick at the last cue triggered.                      *)

MaxCueFrames == 20

\* a tick k ms before 2^32, k in 1 .. 65536
BeforeWrap(k) == [hi |-> 65535, lo |-> 65536 - k]

CueStartTicks == {U32(0), [hi |-> 32767, lo |-> 65536 - 300], BeforeWrap(550), BeforeWrap(300)}

CuePeriods == {10, 30}

NoCue == [hi |-> -1, lo |-> -1]

InitCue ==
    /\ PongStart(CHOOSE c \in Configs : c.ball_speed = 10)
    /\ LcdStart
    /\ IoStart
    /\ \E t \in CueStartTicks :
           frame = [op |-> "PongEngine_Init", n |-> 0, cue |-> NoCue, start |-> t]

\* the first call is made at the start tick of the session
CueUpdate ==
    \E dt \in CuePeriods :
        /\ frame.n < MaxCueFrames
        /\ LET now == IF frame.n = 0 THEN frame.start ELSE U32_Add(tick, dt)
               w == PongEngine_Update(World(now), [direction |-> "CENTRE"], NoDraw, NoDraw)
               cued == \E i \in DOMAIN w.events : w.events[i].ev = "beep"
           IN  /\ ball' = w.ball
               /\ paddle' = w.paddle
               /\ lives' = w.lives
               /\ buzzer' = w.buzzer
               /\ buzzer_stop_tick' = w.buzzer_stop_tick
               /\ tick' = w.now
               /\ frame' = [op |-> "PongEngine_Update", n |-> frame.n + 1, input |-> "CENTRE",
                            events |-> w.events, ret |-> w.ret, start |-> frame.start,
                            cue |-> IF cued THEN now ELSE frame.cue]
        /\ UNCHANGED <<ioVars, cfg, lcdVars>>

NextCue == CueUpdate

SpecCue == InitCue /\ [][NextCue]_vars

----------------------------------------------------------------------------
(* The game protocol: the main loop calls PongEngine_Update every period   *)
(* for as long as the last call returned a value other than 0, and makes   *)
(* no call after that.  The joystick is left centred.                      *)

GameOver == frame.op = "PongEngine_Update" /\ frame.ret = 0

ProtocolUpdate == ~GameOver /\ IdleUpdate

NextProtocol == ProtocolUpdate

\* An iteration of the loop, seen by the clock alone: it is enabled exactly when
\* ProtocolUpdate is, and the steps of ProtocolUpdate are the steps that advance tick
LoopIteration ==
    /\ ~GameOver
    /\ tick.hi = 0 /\ tick.lo < MaxIdleFrames * 30
    /\ \E dt \in LoopPeriods : tick' = U32_Add(tick, dt)

\* the loop keeps running while the game is on
SpecProtocol == Init /\ [][NextProtocol]_vars /\ WF_tick(LoopIteration)

----------------------------------------------------------------------------
(* Overlapping cues: the paddle is created at the top of the screen, the   *)
(* application places the ball near the top-left corner before the first   *)
(* frame, and the frames follow at varying periods, so that a wall hit and *)
(* a paddle hit come in the same frame or less than 40 ms apart.           *)
(* frame.cue is HAL_GetTick at the last cue, frame.over tells that the     *)
(* tone of an earlier frame was sounding when that cue was triggered.      *)

MaxOverlapFrames == 4

OverlapConfig ==
    [paddle_x |-> 2, paddle_y |-> 0, paddle_width |-> 5, paddle_height |-> 40,
     ball_size |-> 8, ball_speed |-> 8]
OverlapXs == {3, 12, 17}
OverlapYs == {3, 8}

InitOverlap ==
    /\ PongStart(OverlapConfig)
    /\ LcdStart
    /\ IoStart
    /\ frame = [op |-> "PongEngine_Init", n |-> 0, cue |-> NoCue, over |-> FALSE]

OverlapSetPos ==
    \E x \in OverlapXs, y \in OverlapYs :
        /\ frame.n = 0
        /\ ball' = Ball_SetPos(ball, [x |-> x, y |-> y])
        /\ frame' = [op |-> "Ball_SetPos", n |-> 0, cue |-> NoCue, over |-> FALSE]
        /\ UNCHANGED <<ioVars, cfg, paddle, lives, buzzer, buzzer_stop_tick, tick, lcdVars>>

OverlapSetVelocity ==
    \E sx \in {-1, 1}, sy \in {-1, 1} :
        /\ frame.n = 0
        /\ ball' = Ball_SetVelocity(ball, sx * cfg.ball_speed * DIAG_707,
                                    sy * cfg.ball_speed * DIAG_707)
        /\ frame' = [op |-> "Ball_SetVelocity", n |-> 0, cue |-> NoCue, over |-> FALSE]
        /\ UNCHANGED <<ioVars, cfg, paddle, lives, buzzer, buzzer_stop_tick, tick, lcdVars>>

OverlapUpdate ==
    \E d \in PlayDirections, dt \in CuePeriods :
        \E r1 \in Draws(d, dt), r2 \in Draws(d, dt) :
            /\ frame.n < MaxOverlapFrames
            /\ LET now == U32_Add(tick, dt)
                   w == PongEngine_Update(World(now), [direction |-> d], r1, r2)
                   cued == \E i \in DOMAIN w.events : w.events[i].ev = "beep"
               IN  /\ ball' = w.ball
                   /\ paddle' = w.paddle
                   /\ lives' = w.lives
                   /\ buzzer' = w.buzzer
                   /\ buzzer_stop_tick' = w.buzzer_stop_tick
                   /\ tick' = w.now
                   /\ frame' = [op |-> "PongEngine_Update", n |-> frame.n + 1, input |-> d,
                                events |-> w.events, ret |-> w.ret,
                                cue |-> IF cued THEN now ELSE frame.cue,
                                over |-> IF cued THEN buzzer.pwm_started ELSE frame.over]
            /\ UNCHANGED <<ioVars, cfg, lcdVars>>

NextOverlap ==
    \/ OverlapSetPos
    \/ OverlapSetVelocity
    \/ OverlapUpdate

SpecOverlap == InitOverlap /\ [][NextOverlap]_vars

----------------------------------------------------------------------------
(* Goal resets: the application places the ball near the left edge, moving  *)
(* left, beside or in front of the paddle, and runs a few frames.           *)
(* frame.rng holds the outcomes of the two HAL_RNG_GenerateRandomNumber     *)
(* calls of the frame's goal reset.                                         *)

MaxResetFrames == 3

\* a failure, the words giving both ends of the range and the one giving its middle
ResetRngOutcomes == RngOutcomes \cup {[ok |-> TRUE, rnd |-> 20]}
ResetXs == {1, 4, 9}
ResetYs == {60, 110, 200}

InitReset ==
    /\ \E c \in Configs : PongStart(c)
    /\ LcdStart
    /\ IoStart
    /\ frame = [op |-> "PongEngine_Init", n |-> 0]

ResetSetPos ==
    \E x \in ResetXs, y \in ResetYs :
        /\ frame.n = 0
        /\ ball' = Ball_SetPos(ball, [x |-> x, y |-> y])
        /\ frame' = [op |-> "Ball_SetPos", n |-> 0]
        /\ UNCHANGED <<ioVars, cfg, paddle, lives, buzzer, buzzer_stop_tick, tick, lcdVars>>

ResetSetVelocity ==
    \E sy \in {-1, 1} :
        /\ frame.n = 0
        /\ ball' = Ball_SetVelocity(ball, -cfg.ball_speed * DIAG_707,
                                    sy * cfg.ball_speed * DIAG_707)
        /\ frame' = [op |-> "Ball_SetVelocity", n |-> 0]
        /\ UNCHANGED <<ioVars, cfg, paddle, lives, buzzer, buzzer_stop_tick, tick, lcdVars>>

ResetUpdate ==
    \E d \in PlayDirections, dt \in LoopPeriods :
        \E r1 \in IF ResetReached(d, dt) THEN ResetRngOutcomes ELSE {NoDraw},
           r2 \in IF ResetReached(d, dt) THEN ResetRngOutcomes ELSE {NoDraw} :
            /\ frame.n < MaxResetFrames
            /\ LET w == PongEngine_Update(World(U32_Add(tick, dt)), [direction |-> d], r1, r2)
               IN  /\ ball' = w.ball
                   /\ paddle' = w.paddle
                   /\ lives' = w.lives
                   /\ buzzer' = w.buzzer
                   /\ buzzer_stop_tick' = w.buzzer_stop_tick
                   /\ tick' = w.now
                   /\ frame' = [op |-> "PongEngine_Update", n |-> frame.n + 1, input |-> d,
                                paddled |-> w.paddled, events |-> w.events, ret |-> w.ret,
                                rng |-> <<r1, r2>>]
            /\ UNCHANGED <<ioVars, cfg, lcdVars>>

NextReset ==
    \/ ResetSetPos
    \/ ResetSetVelocity
    \/ ResetUpdate

SpecReset == InitReset /\ [][NextReset]_vars

----------------------------------------------------------------------------
(* Random_U16 alone: called with ranges from 0 to the largest uint16_t, the *)
(* generator failing or writing a word                                      *)

RandomMaxes == {0, 1, 2, 41, 255, 256, 32768, 65535}

\* words of the generator, up to 2^31 - 1
RandomWords == {0, 1, 40, 41, 65534, 65535, 65536, 41040, 2147418112, 2147483646, 2147483647}

RandomOutcomes == {[ok |-> FALSE, rnd |-> 0]} \cup {[ok |-> TRUE, rnd |-> v] : v \in RandomWords}

RandomCall ==
    \E max \in RandomMaxes, r \in RandomOutcomes :
        /\ frame' = [op |-> "Random_U16", max |-> max, rng |-> r, ret |-> Random_U16(max, r)]
        /\ UNCHANGED <<ioVars, pongVars, lcdVars>>

NextRandom == RandomCall

SpecRandom == Init /\ [][NextRandom]_vars

----------------------------------------------------------------------------
(* Joystick_GetDirection alone: called with every angle from 0 to 360      *)
(* degrees in steps of a tenth, a negative angle, and magnitudes on both   *)
(* sides of 0.05                                                            *)

DirectionAngles == {-1000} \cup {100 * a : a \in 0..3600}
DirectionMagnitudes == {0, 30, 49, 50, 1000}

\* the application holds an angle and a magnitude
InitDirection ==
    /\ PongStart(CHOOSE c \in Configs : c.ball_speed = 10)
    /\ LcdStart
    /\ IoStart
    /\ \E angle \in DirectionAngles, magnitude \in DirectionMagnitudes :
           frame = [op |-> "none", angle |-> angle, magnitude |-> magnitude]

GetDirectionCall ==
    /\ frame.op = "none"
    /\ frame' = [op |-> "Joystick_GetDirection", angle |-> frame.angle,
                 magnitude |-> frame.magnitude,
                 ret |-> Joystick_GetDirection(frame.angle, frame.magnitude)]
    /\ UNCHANGED <<ioVars, pongVars, lcdVars>>

NextDirection == GetDirectionCall

SpecDirection == InitDirection /\ [][NextDirection]_vars

----------------------------------------------------------------------------
(* The joystick: Joystick_Calibrate while the stick rests, a channel       *)
(* reading mid-scale or, when it is not connected, 0; then Joystick_Read   *)
(* with the stick anywhere                                                  *)

JoystickRestReadings == {0, 2048}
JoystickReadings == {0, 100, 1536, 2048, 2100, 2560, 4095}

InitJoystick ==
    /\ PongStart(CHOOSE c \in Configs : c.ball_speed = 10)
    /\ LcdStart
    /\ IoStart
    /\ frame = [op |-> "Joystick_Init"]

JoystickCalibrateCall ==
    \E xs \in JoystickRestReadings, ys \in JoystickRestReadings :
        /\ joystick' = [joystick EXCEPT !.cfg = Joystick_Calibrate(@, xs, ys)]
        /\ frame' = [op |-> "Joystick_Calibrate"]
        /\ UNCHANGED <<pwm, pongVars, lcdVars>>

JoystickReadCall ==
    \E x_raw \in JoystickReadings, y_raw \in JoystickReadings :
        /\ joystick' = [cfg |-> joystick.cfg,
                        data |-> Joystick_Read(joystick.cfg, x_raw, y_raw)]
        /\ frame' = [op |-> "Joystick_Read"]
        /\ UNCHANGED <<pwm, pongVars, lcdVars>>

NextJoystick ==
    \/ JoystickCalibrateCall
    \/ JoystickReadCall

SpecJoystick == InitJoystick /\ [][NextJoystick]_vars

----------------------------------------------------------------------------
(* The PWM: the six operations in any order, on a timer ticking above or   *)
(* below the frequencies asked for.  frame.n counts the calls, frame.before *)
(* is the call before the last, frame.duty_set tells that PWM_SetDuty has  *)
(* been called with a duty other than 0, frame.ticks_set that PWM_SetTicks *)
(* has been called with on_ticks other than 0.                              *)

MaxPwmCalls == 3

PwmTickFreqs == {1000000, 1000}
PwmFreqs == {0, 1000, 2000000}
PwmDuties == {0, 1, 50, 100, 150}
PwmOnTicks == {0, 250, 70000}
PwmOffTicks == {0, 750}

InitPWM ==
    /\ PongStart(CHOOSE c \in Configs : c.ball_speed = 10)
    /\ LcdStart
    /\ joystick = JoystickStart
    /\ \E t \in PwmTickFreqs : pwm = PwmStart(t)
    /\ frame = [op |-> "none", args |-> <<>>, n |-> 0, before |-> [op |-> "none", args |-> <<>>],
                duty_set |-> FALSE, ticks_set |-> FALSE]

PwmCall(op, args, after, duty, ticks) ==
    /\ frame.n < MaxPwmCalls
    /\ pwm' = after
    /\ frame' = [op |-> op, args |-> args, n |-> frame.n + 1,
                 before |-> [op |-> frame.op, args |-> frame.args],
                 duty_set |-> frame.duty_set \/ duty, ticks_set |-> frame.ticks_set \/ ticks]
    /\ UNCHANGED <<joystick, pongVars, lcdVars>>

PwmInitCall == PwmCall("PWM_Init", <<>>, PWM_Init(pwm), FALSE, FALSE)

PwmSetFreqCall ==
    \E freq_hz \in PwmFreqs :
        PwmCall("PWM_SetFreq", <<freq_hz>>, PWM_SetFreq(pwm, freq_hz), FALSE, FALSE)

PwmSetDutyCall ==
    \E duty_percent \in PwmDuties :
        PwmCall("PWM_SetDuty", <<duty_percent>>, PWM_SetDuty(pwm, duty_percent),
                duty_percent # 0, FALSE)

\* PWM_Set calls PWM_SetDuty when neither argument is 0
PwmSetCall ==
    \E freq_hz \in {0, 1000}, duty_percent \in {0, 50} :
        PwmCall("PWM_Set", <<freq_hz, duty_percent>>, PWM_Set(pwm, freq_hz, duty_percent),
                duty_percent # 0 /\ freq_hz # 0, FALSE)

PwmSetTicksCall ==
    \E on_ticks \in PwmOnTicks, off_ticks \in PwmOffTicks :
        PwmCall("PWM_SetTicks", <<on_ticks, off_ticks>>, PWM_SetTicks(pwm, on_ticks, off_ticks),
                FALSE, on_ticks # 0)

PwmOffCall == PwmCall("PWM_Off", <<>>, PWM_Off(pwm), FALSE, FALSE)

NextPWM ==
    \/ PwmInitCall
    \/ PwmSetFreqCall
    \/ PwmSetDutyCall
    \/ PwmSetCall
    \/ PwmSetTicksCall
    \/ PwmOffCall

SpecPWM == InitPWM /\ [][NextPWM]_vars

----------------------------------------------------------------------------
(* Rallies: a played session long enough for the ball to cross the screen   *)
(* and come back after a goal reset.  frame.since counts the frames since   *)
(* the last paddle hit or goal (or since PongEngine_Init), frame.waited is  *)
(* that count before this frame.                                            *)

MaxRallyFrames == 130

\* a failed draw and the word giving the top of the range
RallyRngOutcomes == {[ok |-> FALSE, rnd |-> 0], [ok |-> TRUE, rnd |-> 40 + 41 * 1000]}

InitRally ==
    /\ \E c \in Configs : PongStart(c)
    /\ LcdStart
    /\ IoStart
    /\ frame = [op |-> "PongEngine_Init", n |-> 0, since |-> 0, waited |-> 0]

RallyUpdate ==
    \E d \in PlayDirections, dt \in LoopPeriods :
        \E r1 \in IF ResetReached(d, dt) THEN RallyRngOutcomes ELSE {NoDraw},
           r2 \in IF ResetReached(d, dt) THEN RallyRngOutcomes ELSE {NoDraw} :
            /\ frame.n < MaxRallyFrames
            /\ LET w == PongEngine_Update(World(U32_Add(tick, dt)), [direction |-> d], r1, r2)
                   ended == \E i \in DOMAIN w.events : w.events[i].ev \in {"paddle_hit", "goal"}
               IN  /\ ball' = w.ball
                   /\ paddle' = w.paddle
                   /\ lives' = w.lives
                   /\ buzzer' = w.buzzer
                   /\ buzzer_stop_tick' = w.buzzer_stop_tick
                   /\ tick' = w.now
                   /\ frame' = [op |-> "PongEngine_Update", n |-> frame.n + 1,
                                events |-> w.events, ret |-> w.ret,
                                since |-> IF ended THEN 0 ELSE frame.since + 1,
                                waited |-> frame.since]
            /\ UNCHANGED <<ioVars, cfg, lcdVars>>

NextRally == RallyUpdate

SpecRally == InitRally /\ [][NextRally]_vars

----------------------------------------------------------------------------
(* Free flight: Ball_Update alone, on a ball made by Ball_Init and given    *)
(* any velocity by Ball_SetVelocity.  frame.start is the position the       *)
(* flight began at, frame.n the number of updates since.                    *)

MaxBallUpdates == 6

\* int16_t speeds passed to Ball_Init
BallSpeeds == {0, 1, 2, 7, 10}

\* float components passed to Ball_SetVelocity, in thousandths
BallVelocities == {-5656, -1999, -1000, -999, -1, 0, 500, 999, 1000, 1500, 7070}

InitBall ==
    /\ PongStart(CHOOSE c \in Configs : c.ball_speed = 10)
    /\ LcdStart
    /\ IoStart
    /\ frame = [op |-> "none", n |-> 0, start |-> [x |-> 0, y |-> 0]]

BallInitCall ==
    \E speed \in BallSpeeds :
        /\ frame.op = "none"
        /\ ball' = Ball_Init(cfg.ball_size, speed)
        /\ frame' = [op |-> "Ball_Init", n |-> 0,
                     start |-> [x |-> ball'.x, y |-> ball'.y]]
        /\ UNCHANGED <<ioVars, cfg, paddle, lives, buzzer, buzzer_stop_tick, tick, lcdVars>>

BallSetVelocityCall ==
    \E vx \in BallVelocities, vy \in BallVelocities :
        /\ frame.op = "Ball_Init"
        /\ ball' = Ball_SetVelocity(ball, vx, vy)
        /\ frame' = [frame EXCEPT !.op = "Ball_SetVelocity"]
        /\ UNCHANGED <<ioVars, cfg, paddle, lives, buzzer, buzzer_stop_tick, tick, lcdVars>>

BallUpdateCall ==
    /\ frame.op # "none"
    /\ frame.n < MaxBallUpdates
    /\ ball' = Ball_Update(ball)
    /\ frame' = [frame EXCEPT !.op = "Ball_Update", !.n = @ + 1]
    /\ UNCHANGED <<ioVars, cfg, paddle, lives, buzzer, buzzer_stop_tick, tick, lcdVars>>

NextBall == BallInitCall \/ BallSetVelocityCall \/ BallUpdateCall

SpecBall == InitBall /\ [][NextBall]_vars

----------------------------------------------------------------------------
(* Index values: LCD_Set_Pixel with any uint8_t the callers can pass.  The  *)
(* sprite blits pass every cell other than 255 as it is.                    *)

MaxIndexCalls == 2

IndexPixels ==
    {[x |-> 0, y |-> 0], [x |-> 3, y |-> 2], [x |-> 6, y |-> 0], [x |-> 7, y |-> 0],
     [x |-> 238, y |-> 239]}
IndexValues == {5, 12, 16, 53, 254}

SetIndexCall == SetPixelCall(MaxIndexCalls, IndexPixels, IndexValues)

NextIndex == SetIndexCall

SpecIndex == InitLCD /\ [][NextIndex]_vars

----------------------------------------------------------------------------
(* One call of LCD_Draw_Line on the zeroed buffer, pass by pass.  frame     *)
(* holds the arguments and the locals: pc is where the call stands, axis    *)
(* the coordinate looped over, i the loop variable.                         *)

LineXs == {0, 2, 9, 239}
LineYs == {3, 6, 239}

\* the segments between the points of the grid, and segments between uint16_t
\* coordinates far outside the buffer: ending at 65535, spanning 8000, wrapped
LineLoopInputs ==
    {LineArgs(ax, ay, bx, by) : ax \in LineXs, bx \in LineXs, ay \in LineYs, by \in LineYs}
    \cup {LineArgs(65535, 5, 65000, 5), LineArgs(0, 5, 8000, 5), LineArgs(65535, 5, 0, 5),
          LineArgs(5, 65400, 5, 65535)}

InitLine ==
    /\ PongStart(CHOOSE c \in Configs : c.ball_speed = 10)
    /\ LcdStart
    /\ IoStart
    /\ \E a \in LineLoopInputs :
           frame = [op |-> "LCD_Draw_Line", pc |-> "entry", x0 |-> a.x0, y0 |-> a.y0,
                    x1 |-> a.x1, y1 |-> a.y1, colour |-> 5, axis |-> "none",
                    i |-> 0, stop |-> 0]

\* up to the first test of the loop condition
LineEnter ==
    /\ frame.pc = "entry"
    /\ LET y_range == Int16(frame.y1 - frame.y0)
           x_range == Int16(frame.x1 - frame.x0)
       IN  IF x_range = 0 /\ y_range = 0
           THEN /\ SetStatics(LCD_Set_Pixel(Statics, frame.x0, frame.y0, frame.colour, "elsewhere"))
                /\ frame' = [frame EXCEPT !.pc = "done"]
           ELSE IF Abs(x_range) > Abs(y_range)
           THEN /\ frame' = [frame EXCEPT !.pc = "loop", !.axis = "x",
                                          !.i = IF x_range > 0 THEN frame.x0 ELSE frame.x1,
                                          !.stop = IF x_range > 0 THEN frame.x1 ELSE frame.x0]
                /\ UNCHANGED <<image_buffer, track_changes, colour_map, stray>>
           ELSE /\ frame' = [frame EXCEPT !.pc = "loop", !.axis = "y",
                                          !.i = IF y_range > 0 THEN frame.y0 ELSE frame.y1,
                                          !.stop = IF y_range > 0 THEN frame.y1 ELSE frame.y0]
                /\ UNCHANGED <<image_buffer, track_changes, colour_map, stray>>
    /\ UNCHANGED <<ioVars, pongVars, panel>>

\* one pass of the for loop: the body and the increment
LinePass ==
    /\ frame.pc = "loop"
    /\ frame.i <= frame.stop
    /\ LET y_range == Int16(frame.y1 - frame.y0)
           x_range == Int16(frame.x1 - frame.x0)
           px == IF frame.axis = "x" THEN U16(frame.i)
                 ELSE U16(frame.x0 + CQuot(x_range * Int16(frame.i - frame.y0), y_range))
           py == IF frame.axis = "x"
                 THEN U16(frame.y0 + CQuot(y_range * Int16(frame.i - frame.x0), x_range))
                 ELSE U16(frame.i)
       IN  SetStatics(LCD_Set_Pixel(Statics, px, py, frame.colour,
                                    IF py < ST7789V2_HEIGHT THEN "elsewhere" ELSE "image_buffer"))
    /\ frame' = [frame EXCEPT !.i = LineLoopNext(@)]
    /\ UNCHANGED <<ioVars, pongVars, panel>>

\* the loop condition fails
LineReturn ==
    /\ frame.pc = "loop"
    /\ frame.i > frame.stop
    /\ frame' = [frame EXCEPT !.pc = "done"]
    /\ UNCHANGED <<ioVars, pongVars, lcdVars>>

NextLine == LineEnter \/ LinePass \/ LineReturn

SpecLine == InitLine /\ [][NextLine]_vars

----------------------------------------------------------------------------
(* Rectangles inside the buffer: filled and outlined, of widths and heights *)
(* from 0 up, away from the edges, in the corners and overlapping.          *)

MaxRectCalls == 2

RectInside ==
    {[x0 |-> 10, y0 |-> 10, width |-> 4, height |-> 3],
     [x0 |-> 10, y0 |-> 10, width |-> 1, height |-> 3],
     [x0 |-> 10, y0 |-> 10, width |-> 4, height |-> 1],
     [x0 |-> 10, y0 |-> 10, width |-> 1, height |-> 1],
     [x0 |-> 10, y0 |-> 10, width |-> 0, height |-> 3],
     [x0 |-> 10, y0 |-> 10, width |-> 4, height |-> 0],
     [x0 |-> 10, y0 |-> 10, width |-> 0, height |-> 0],
     [x0 |-> 0, y0 |-> 0, width |-> 4, height |-> 3],
     [x0 |-> 0, y0 |-> 0, width |-> 0, height |-> 3],
     [x0 |-> 0, y0 |-> 0, width |-> 4, height |-> 0],
     [x0 |-> 236, y0 |-> 237, width |-> 4, height |-> 3],
     [x0 |-> 12, y0 |-> 11, width |-> 4, height |-> 3]}
RectColours == {5, 9}

RectCall ==
    \E a \in RectInside, c \in RectColours, fill \in Fills, lay \in Lays :
        /\ frame.n < MaxRectCalls
        /\ SetStatics(LCD_Draw_Rect(Statics, a.x0, a.y0, a.width, a.height, c, fill, lay))
        /\ frame' = [op |-> "LCD_Draw_Rect", n |-> frame.n + 1, x0 |-> a.x0, y0 |-> a.y0,
                     width |-> a.width, height |-> a.height, colour |-> c, fill |-> fill]
        /\ UNCHANGED <<ioVars, pongVars, panel>>

NextRect == RectCall

SpecRect == InitLCD /\ [][NextRect]_vars

----------------------------------------------------------------------------
(* LCD_Refresh statement by statement, with the DMA channel running beside  *)
(* the CPU.  frame holds the locals and the hardware: pc where the CPU      *)
(* stands, row the row under test (2*i or 2*i + 1), buf the local buf, busy *)
(* the BSY flag of the SPI, set from the enabling of the DMA channel until  *)
(* its block is out, src the line buffer the channel reads, sending the row *)
(* it sends, line the row each line buffer was filled from, dirty the rows  *)
(* that were dirty at the call.                                             *)

\* the dirty rows at the call: every pattern of the first five rows, the last two
\* rows, every second row, all rows
DirtyPatterns ==
    (SUBSET {0, 1, 2, 3, 4}) \cup {{238, 239}, {r \in Rows : r % 2 = 0}, Rows}

\* the block the previous LCD_Refresh started last may still be on its way
EntryTransfers ==
    {[busy |-> FALSE, src |-> 0, sending |-> 238], [busy |-> TRUE, src |-> 0, sending |-> 238],
     [busy |-> TRUE, src |-> 1, sending |-> 239]}

InitRefresh ==
    /\ PongStart(CHOOSE c \in Configs : c.ball_speed = 10)
    /\ IoStart
    /\ image_buffer = LcdStatics.image_buffer
    /\ colour_map = LcdStatics.colour_map
    /\ stray = LcdStatics.stray
    /\ panel = AllRows(NeverSent)
    /\ \E d \in DirtyPatterns, t \in EntryTransfers :
           /\ track_changes = [r \in Rows |-> IF r \in d THEN 1 ELSE 0]
           /\ frame = [op |-> "LCD_Refresh", pc |-> "entry", row |-> 0, buf |-> 0,
                       busy |-> t.busy, src |-> t.src, sending |-> t.sending,
                       line |-> <<238, 239>>, dirty |-> d]

\* ST7789V2_Set_Address_Window and ST7789V2_Send_Command: each byte waits for the SPI
\* before and after it, so they get through once the block on its way is out
RefreshEnter ==
    /\ frame.pc = "entry"
    /\ ~frame.busy
    /\ frame' = [frame EXCEPT !.pc = "test"]
    /\ UNCHANGED <<ioVars, pongVars, lcdVars>>

\* if (track_changes[row]) and the test of buf
RefreshTest ==
    /\ frame.pc = "test"
    /\ frame.row < ST7789V2_HEIGHT
    /\ frame' = IF track_changes[frame.row] = 0
                THEN [frame EXCEPT !.row = @ + 1]
                ELSE IF RefreshMustWait(frame.buf, frame.row % 2)
                THEN [frame EXCEPT !.pc = "wait"]
                ELSE [frame EXCEPT !.pc = "fill"]
    /\ UNCHANGED <<ioVars, pongVars, lcdVars>>

\* while (cfg->spi->SR & SPI_SR_BSY);
RefreshWait ==
    /\ frame.pc = "wait"
    /\ ~frame.busy
    /\ frame' = [frame EXCEPT !.pc = "fill"]
    /\ UNCHANGED <<ioVars, pongVars, lcdVars>>

\* buf, the dirty flag and the loop that writes the line buffer
RefreshFill ==
    /\ frame.pc = "fill"
    /\ track_changes' = [track_changes EXCEPT ![frame.row] = 0]
    /\ frame' = [frame EXCEPT !.pc = "window", !.buf = frame.row % 2,
                              !.line[(frame.row % 2) + 1] = frame.row]
    /\ UNCHANGED <<ioVars, pongVars, image_buffer, colour_map, stray, panel>>

\* the address window, the command and the wait of ST7789V2_Send_Data_Block
RefreshWindow ==
    /\ frame.pc = "window"
    /\ ~frame.busy
    /\ frame' = [frame EXCEPT !.pc = "send"]
    /\ UNCHANGED <<ioVars, pongVars, lcdVars>>

\* spi_transmit_dma_8bit: the channel is enabled on the line buffer and the CPU goes on
RefreshSend ==
    /\ frame.pc = "send"
    /\ frame' = [frame EXCEPT !.pc = "test", !.busy = TRUE, !.src = frame.row % 2,
                              !.sending = frame.row, !.row = @ + 1]
    /\ UNCHANGED <<ioVars, pongVars, lcdVars>>

RefreshReturn ==
    /\ frame.pc = "test"
    /\ frame.row = ST7789V2_HEIGHT
    /\ frame' = [frame EXCEPT !.pc = "done"]
    /\ UNCHANGED <<ioVars, pongVars, lcdVars>>

\* the channel has read its line buffer to the end and the SPI has shifted it out:
\* the display holds what the buffer held
DmaComplete ==
    /\ frame.busy
    /\ frame' = [frame EXCEPT !.busy = FALSE]
    /\ panel' = [panel EXCEPT ![frame.sending] =
                    PanelRow(LineBuffer(Statics, frame.line[frame.src + 1]))]
    /\ UNCHANGED <<ioVars, pongVars, image_buffer, track_changes, colour_map, stray>>

NextRefresh ==
    \/ RefreshEnter
    \/ RefreshTest
    \/ RefreshWait
    \/ RefreshFill
    \/ RefreshWindow
    \/ RefreshSend
    \/ RefreshReturn
    \/ DmaComplete

SpecRefresh == InitRefresh /\ [][NextRefresh]_vars

----------------------------------------------------------------------------
(* Vocabulary of the properties *)

IsFrame(f) == f.op = "PongEngine_Update"

HasEvent(f, name) == \E i \in DOMAIN f.events : f.events[i].ev = name

HasBeep(f, hz) == \E i \in DOMAIN f.events : f.events[i] = [ev |-> "beep", freq_hz |-> hz]

\* the square of side size at (bx, by) overlaps the rectangle of paddle p
Overlaps(bx, by, size, p) ==
    /\ bx < p.x + p.width
    /\ bx + size > p.x
    /\ by < p.y + p.height
    /\ by + size > p.y

\* velocity component in thousandths, as whole pixels toward zero
WholePixels(v) == IF v < 0 THEN -((-v) \div 1000) ELSE v \div 1000

Centred(size) == (240 - size) \div 2

----------------------------------------------------------------------------
(* C1: lives is 4 after PongEngine_Init; over any sequence of             *)
(* PongEngine_Update calls it never increases, stays within 0..4, and     *)
(* once it is 0 it stays 0.                                               *)
(* Fails: the fifth goal of a session decrements the uint8_t 0 to 255.    *)
C1_LivesStep == lives' <= lives /\ lives' \in 0..4 /\ (lives = 0 => lives' = 0)

C1_LivesBoundedAndTerminal == (lives = 4) /\ [][C1_LivesStep]_vars

(* C2: after every Paddle_Update call, whatever the direction, the paddle *)
(* satisfies 0 <= y and y + height <= 240, and the call leaves the height *)
(* as it was.                                                             *)
C2_PaddleClamped ==
    [][frame'.op = "Paddle_Update" =>
          /\ 0 <= paddle'.y
          /\ paddle'.y + paddle'.height <= 240
          /\ paddle'.height = paddle.height]_vars

\* the bottom clamp has acted: a paddle created at y = 236 was pulled back to 240 - height
C2_Witness ==
    /\ frame.op = "Paddle_Update"
    /\ cfg.paddle_y = 236
    /\ paddle.height = 40
    /\ paddle.y = 200

(* C3: in a frame whose goal check sees the ball's left edge below 0,     *)
(* lives goes down by exactly 1, the ball is put at the centred position  *)
(* plus an offset within [-20, 20] on each axis and the velocity becomes  *)
(* (8*0.707, 8*0.707); in any other frame the goal check changes none of  *)
(* lives, ball position and ball velocity.                                *)
(* Fails only in the frame C1 fails in: lives 0 becomes 255, not -1.      *)
C3_GoalStep ==
    IsFrame(frame') =>
        IF frame'.paddled.x < 0
        THEN /\ lives' = lives - 1
             /\ ball'.x - Centred(ball.size) \in -20..20
             /\ ball'.y - Centred(ball.size) \in -20..20
             /\ ball'.velocity = [x |-> 5656, y |-> 5656]
        ELSE /\ lives' = lives
             /\ ball'.x = frame'.paddled.x
             /\ ball'.y = frame'.paddled.y
             /\ ball'.velocity = frame'.paddled.velocity

C3_GoalReset == [][C3_GoalStep]_vars

(* C4: in a frame in which the ball's top edge is <= 0 after the move,    *)
(* the velocity after the wall step is (vx, -vy), (vx, vy) being the      *)
(* velocity before the step, and y >= 0.                                  *)
(* Fails in the top-right corner: the right-wall branch writes back the   *)
(* vertical component read before the top-wall branch inverted it.        *)
C4_TopStep ==
    (IsFrame(frame') /\ frame'.moved.y <= 0) =>
        /\ frame'.walled.velocity = [x |-> ball.velocity.x, y |-> -ball.velocity.y]
        /\ frame'.walled.y >= 0

C4_TopWallReflects == [][C4_TopStep]_vars

(* C5: a ball whose bottom edge is >= 240 is clamped to y = 240 - size - 2 *)
(* and has its vertical velocity inverted; a ball whose right edge is      *)
(* >= 240 is clamped to x = 240 - size - 2 and has its horizontal velocity *)
(* inverted; each of the two leaves the other component to the other rule; *)
(* a ball beyond the left edge is not reflected by the wall step.          *)
(* Fails in the bottom-right corner, which every session reaches at its    *)
(* first wall contact: the vertical velocity is left as it was.            *)
C5_WallStep ==
    IsFrame(frame') =>
        LET m == frame'.moved
            wl == frame'.walled
            v == ball.velocity
            bottomHit == m.y > 0 /\ m.y + ball.size >= 240
            topHit == m.y <= 0
            rightHit == m.x + ball.size >= 240
        IN  /\ bottomHit => /\ wl.y = 240 - ball.size - 2
                            /\ wl.velocity.y = -v.y
                            /\ (~rightHit => wl.velocity.x = v.x)
            /\ rightHit => /\ wl.x = 240 - ball.size - 2
                           /\ wl.velocity.x = -v.x
                           /\ (~bottomHit /\ ~topHit => wl.velocity.y = v.y)
            /\ m.x < 0 => (wl.x = m.x /\ wl.velocity.x = v.x)

C5_OtherWalls == [][C5_WallStep]_vars

(* C10: Paddle_Update moves the paddle up by speed for N, NE, NW and down *)
(* by speed for S, SE, SW, then clamps; for CENTRE, E and W a paddle      *)
(* within bounds keeps its y; x, width, height, speed and score never     *)
(* change.                                                                *)
C10_PaddleStep ==
    frame'.op = "Paddle_Update" =>
        LET d == frame'.input
            target == IF d \in {"N", "NE", "NW"} THEN paddle.y - paddle.speed
                      ELSE IF d \in {"S", "SE", "SW"} THEN paddle.y + paddle.speed
                      ELSE paddle.y
            top == IF target < 0 THEN 0 ELSE target
            clamped == IF top + paddle.height > 240 THEN 240 - paddle.height ELSE top
        IN  /\ paddle'.y = clamped
            /\ (0 <= target /\ target + paddle.height <= 240) => paddle'.y = target
            /\ (d \in {"CENTRE", "E", "W"} /\ 0 <= paddle.y /\ paddle.y + paddle.height <= 240)
                   => paddle'.y = paddle.y
            /\ paddle'.x = paddle.x
            /\ paddle'.width = paddle.width
            /\ paddle'.height = paddle.height
            /\ paddle'.speed = paddle.speed
            /\ paddle'.score = paddle.score

C10_PaddleMove == [][C10_PaddleStep]_vars

\* a diagonal has moved the paddle: created at y = 100, it is one speed above after NE
C10_Witness ==
    /\ frame.op = "Paddle_Update"
    /\ frame.input = "NE"
    /\ cfg.paddle_y = 100
    /\ paddle.y = 100 - paddle.speed

(* C6: at the paddle-collision step, exactly when the ball's box overlaps *)
(* the paddle's box, the horizontal velocity is negated and the vertical  *)
(* kept, the ball's x becomes paddle.x + paddle.width, the score goes up  *)
(* by exactly 1 and the 800 Hz cue is triggered; without overlap the step *)
(* changes none of ball velocity, ball position, score and tone.          *)
C6_PaddleStep ==
    IsFrame(frame') =>
        LET wl == frame'.walled
            pd == frame'.paddled
        IN  IF Overlaps(wl.x, wl.y, ball.size, paddle')
            THEN /\ pd.velocity = [x |-> -wl.velocity.x, y |-> wl.velocity.y]
                 /\ pd.x = paddle'.x + paddle'.width
                 /\ pd.y = wl.y
                 /\ paddle'.score = paddle.score + 1
                 /\ HasEvent(frame', "paddle_hit")
                 /\ HasBeep(frame', 800)
                 /\ buzzer'.pwm_started
            ELSE /\ pd = wl
                 /\ paddle'.score = paddle.score
                 /\ ~HasEvent(frame', "paddle_hit")
                 /\ ~HasBeep(frame', 800)

C6_PaddleCollision == [][C6_PaddleStep]_vars

\* a paddle hit that moved the ball out of the paddle
C6_Witness ==
    /\ IsFrame(frame)
    /\ HasEvent(frame, "paddle_hit")
    /\ frame.paddled.x # frame.walled.x
    /\ paddle.score = 1

(* C7: the score is 0 after init; no PongEngine_Update makes              *)
(* PongEngine_GetScore smaller, and it changes only in a frame with a     *)
(* paddle collision.                                                      *)
C7_ScoreStep ==
    IsFrame(frame') =>
        /\ PongEngine_GetScore([paddle |-> paddle']) >= PongEngine_GetScore([paddle |-> paddle])
        /\ paddle'.score # paddle.score
               => Overlaps(frame'.walled.x, frame'.walled.y, ball.size, paddle')

C8_MagnitudeOfInit ==
    /\ Abs(ball.velocity.x) = cfg.ball_speed * 707
    /\ Abs(ball.velocity.y) = cfg.ball_speed * 707

(* C8 amended: each component starts with the magnitude Ball_Init gave it; *)
(* the wall step and the paddle step change only signs; a goal reset sets  *)
(* both components to +8*0.707 whatever the speed given to Ball_Init, and  *)
(* a frame without a goal leaves both magnitudes as they were.             *)
C8_SignsStep ==
    IsFrame(frame') =>
        LET v == ball.velocity
            SameMagnitude(u) == Abs(u.x) = Abs(v.x) /\ Abs(u.y) = Abs(v.y)
        IN  /\ SameMagnitude(frame'.walled.velocity)
            /\ SameMagnitude(frame'.paddled.velocity)
            /\ IF frame'.paddled.x < 0
               THEN ball'.velocity = [x |-> 5656, y |-> 5656]
               ELSE SameMagnitude(ball'.velocity)

C8_SignsOnlyBetweenGoals == C8_MagnitudeOfInit /\ [][C8_SignsStep]_vars

\* a wall hit after a goal has replaced the magnitude given by Ball_Init
C8_Witness ==
    /\ IsFrame(frame)
    /\ HasEvent(frame, "wall_right")
    /\ Abs(ball.velocity.x) = 5656
    /\ cfg.ball_speed * 707 # 5656

(* C9: PongEngine_Update moves the paddle, moves the ball, resolves the   *)
(* walls, tests the paddle, checks the goal and ticks the buzzer, in that *)
(* order: the paddle test sees the paddle as moved by this frame's input  *)
(* and the ball as moved and wall-clamped in this frame, the goal check   *)
(* sees the ball's x after the paddle repositioning, and the value        *)
(* returned is lives after the goal check.                                *)
StepOf(e) ==
    CASE e.ev \in {"wall_top", "wall_bottom", "wall_right"} -> 3
      [] e.ev = "paddle_hit" -> 4
      [] e.ev = "goal" -> 5
      [] e.ev = "buzzer_off" -> 6
      [] OTHER -> 0

C9_OrderStep ==
    IsFrame(frame') =>
        LET d == frame'.input
            size == ball.size
            m == frame'.moved
            wl == frame'.walled
            pd == frame'.paddled
            ev == frame'.events
            target == IF d \in {"N", "NE", "NW"} THEN paddle.y - paddle.speed
                      ELSE IF d \in {"S", "SE", "SW"} THEN paddle.y + paddle.speed
                      ELSE paddle.y
            top == IF target < 0 THEN 0 ELSE target
            movedY == IF top + paddle.height > 240 THEN 240 - paddle.height ELSE top
            hit == HasEvent(frame', "paddle_hit")
            goal == HasEvent(frame', "goal")
        IN  /\ paddle'.y = movedY
            /\ m.x = ball.x + WholePixels(ball.velocity.x)
            /\ m.y = ball.y + WholePixels(ball.velocity.y)
            /\ wl.y = IF m.y <= 0 THEN 2
                      ELSE IF m.y + size >= 240 THEN 240 - size - 2 ELSE m.y
            /\ wl.x = IF m.x + size >= 240 THEN 240 - size - 2 ELSE m.x
            /\ hit <=> Overlaps(wl.x, wl.y, size, paddle')
            /\ pd.x = IF hit THEN paddle'.x + paddle'.width ELSE wl.x
            /\ goal <=> pd.x < 0
            /\ lives' = IF goal THEN (lives - 1) % 256 ELSE lives
            /\ frame'.ret = lives'
            /\ \A i, j \in DOMAIN ev :
                   (i < j /\ StepOf(ev[i]) # 0 /\ StepOf(ev[j]) # 0)
                       => StepOf(ev[i]) <= StepOf(ev[j])
            /\ \A i \in DOMAIN ev : ev[i].ev = "buzzer_off" => i = Len(ev)

C9_UpdateOrder == [][C9_OrderStep]_vars

\* a frame in which the order shows: the paddle, moved down by this frame's input,
\* catches a ball that is already beyond the left edge and that the paddle as
\* it was before the move would have missed, and no goal is counted
C9_Witness ==
    /\ IsFrame(frame)
    /\ frame.input = "SE"
    /\ paddle.y + paddle.height < 240
    /\ HasEvent(frame, "paddle_hit")
    /\ ~Overlaps(frame.walled.x, frame.walled.y, ball.size, [paddle EXCEPT !.y = @ - paddle.speed])
    /\ frame.walled.x < 0
    /\ ~HasEvent(frame, "goal")
    /\ frame.ret = lives

(* C11: AABB_Collides(A, B) = AABB_Collides(B, A) for all rectangles A    *)
(* and B, and two rectangles of which one's right edge is the other's     *)
(* left edge, or one's bottom edge the other's top edge, do not collide.  *)
SharesEdge(a, b) ==
    \/ a.x + a.width = b.x
    \/ b.x + b.width = a.x
    \/ a.y + a.height = b.y
    \/ b.y + b.height = a.y

C11_AABBSymmetricEdgeFree ==
    frame.op = "AABB_Collides" =>
        /\ frame.ret = frame.swapped
        /\ SharesEdge(frame.a, frame.b) => ~frame.ret

\* two rectangles side by side on the same rows: only the shared edge keeps them apart
C11_Witness ==
    /\ frame.op = "AABB_Collides"
    /\ frame.a.x + frame.a.width = frame.b.x
    /\ frame.a.y = frame.b.y
    /\ ~frame.ret
    /\ ~frame.swapped

----------------------------------------------------------------------------
(* Vocabulary of the display properties *)

\* the index stored at pixel (x, y): LCD_Set_Pixel packs the pixels of a row two to a
\* byte, pixel number 240 * y + x in the low nibble when x is even, in the high one when odd
StoredIndex(buf, x, y) ==
    LET byte == ByteAt(buf, (240 * y + x) \div 2)
    IN  IF x % 2 = 1 THEN byte \div 16 ELSE byte % 16

\* every pixel of the buffer holds index c: no byte is overridden and the fill is the
\* byte with c in both nibbles (an override never equals the fill, see WriteByte)
EveryPixelHolds(buf, c) ==
    /\ DOMAIN buf.over = {}
    /\ buf.fill.mul = 0
    /\ buf.fill.add = 17 * c
    /\ \A x \in {0, 1, 120, 239}, y \in {0, 1, 120, 239} : StoredIndex(buf, x, y) = c

\* the display shows, in row r, what is stored in row r under the active palette
RowInLine(r) ==
    \A x \in 0 .. 239 :
        PanelColour(panel[r], x) = ColourOf(colour_map, StoredIndex(image_buffer, x, r))

(* C12: every row that has been transmitted and whose stored pixels no   *)
(* longer are what the display shows is flagged dirty.                    *)
(* Fails after LCD_randomiseBuffer, which sets no flag.                   *)
C12_StaleRowsDirty ==
    \A r \in Rows : (panel[r] # NeverSent /\ ~RowInLine(r)) => track_changes[r] # 0

(* C13: LCD_Refresh transmits a row if and only if its dirty flag was set *)
(* when the refresh started; a transmitted row carries, for x = 0..239,   *)
(* the active palette's colour of the index stored at (x, row); after the *)
(* refresh no row is flagged dirty and the stored indices are unchanged.  *)
C13_RefreshStep ==
    frame'.op = "LCD_Refresh" =>
        LET sent == frame'.sent
            Sent(r) == \E i \in DOMAIN sent : sent[i] = r
        IN  /\ \A r \in Rows : Sent(r) <=> track_changes[r] # 0
            /\ \A i, j \in DOMAIN sent : i # j => sent[i] # sent[j]
            /\ \A r \in Rows :
                   IF Sent(r)
                   THEN \A x \in 0 .. 239 :
                            PanelColour(panel'[r], x)
                                = ColourOf(colour_map, StoredIndex(image_buffer, x, r))
                   ELSE panel'[r] = panel[r]
            /\ \A r \in Rows : track_changes'[r] = 0
            /\ image_buffer' = image_buffer
            /\ colour_map' = colour_map

C13_RefreshSendsDirtyRows == [][C13_RefreshStep]_vars

\* a refresh that had one dirty row: row 2, with index 5 at x = 3 on a cleared row
C13_Witness ==
    /\ frame.op = "LCD_Refresh"
    /\ frame.sent = <<2>>
    /\ panel[0] = NeverSent
    /\ PanelColour(panel[2], 3) = ColourOf(colour_map, 5)
    /\ PanelColour(panel[2], 2) = ColourOf(colour_map, 0)
    /\ ColourOf(colour_map, 5) # ColourOf(colour_map, 0)

(* C14: LCD_Set_Pixel(x, y, index) with x, y < 240 sets the dirty flag of *)
(* row y and leaves the flag of every other row as it was.                *)
C14_SetPixelStep ==
    (frame'.op = "LCD_Set_Pixel" /\ frame'.x < 240 /\ frame'.y < 240) =>
        /\ track_changes'[frame'.y] = 1
        /\ \A r \in Rows : r # frame'.y => track_changes'[r] = track_changes[r]

C14_SetPixelMarksItsRow == [][C14_SetPixelStep]_vars

\* a pixel of row 2 was set last: row 2 is dirty, rows 0, 1, 3 and 239 are not
C14_Witness ==
    /\ frame.op = "LCD_Set_Pixel"
    /\ frame.x = 3 /\ frame.y = 2
    /\ track_changes[2] = 1
    /\ track_changes[0] = 0 /\ track_changes[1] = 0
    /\ track_changes[3] = 0 /\ track_changes[239] = 0

(* C15: LCD_Set_Palette(id), for ids inside and outside the enumeration,  *)
(* leaves every stored index as it was, selects one of the four defined   *)
(* 16-entry palettes (the one id names, the default one for any other id) *)
(* and marks all 240 rows dirty.                                          *)
C15_SetPaletteStep ==
    frame'.op = "LCD_Set_Palette" =>
        /\ image_buffer' = image_buffer
        /\ colour_map' \in {"palette_default", "palette_greyscale", "palette_vintage",
                            "palette_custom"}
        /\ Len(Palette(colour_map')) = 16
        /\ frame'.palette = 1 => colour_map' = "palette_greyscale"
        /\ frame'.palette = 2 => colour_map' = "palette_vintage"
        /\ frame'.palette = 3 => colour_map' = "palette_custom"
        /\ frame'.palette \notin {1, 2, 3} => colour_map' = "palette_default"
        /\ \A r \in Rows : track_changes'[r] # 0

C15_SetPalette == [][C15_SetPaletteStep]_vars

\* an id outside the enumeration, on a buffer that holds a pixel and was refreshed
C15_Witness ==
    /\ frame.op = "LCD_Set_Palette"
    /\ frame.palette = 255
    /\ colour_map = "palette_default"
    /\ StoredIndex(image_buffer, 3, 2) = 5
    /\ panel[2] # NeverSent
    /\ \A r \in Rows : track_changes[r] = 1

(* C16: LCD_Get_Pixel(x, y) called right after LCD_Set_Pixel(x, y, index) *)
(* with x, y < 240 and index in 0..15 returns index, and a further        *)
(* LCD_Get_Pixel(x, y) with no write in between returns the same.         *)
(* Fails: LCD_Get_Pixel reads pixel number x * y, not 240 * y + x.        *)
C16_RoundTripStep ==
    frame'.op = "LCD_Get_Pixel" =>
        /\ (frame.op = "LCD_Set_Pixel" /\ frame.x = frame'.x /\ frame.y = frame'.y
               /\ frame.x < 240 /\ frame.y < 240 /\ frame.colour \in 0 .. 15)
              => frame'.ret = frame.colour
        /\ (frame.op = "LCD_Get_Pixel" /\ frame.x = frame'.x /\ frame.y = frame'.y)
              => frame'.ret = frame.ret

C16_GetAfterSet == [][C16_RoundTripStep]_vars

(* C17: LCD_Set_Pixel with x >= 240 or y >= 240 leaves the pixel buffer   *)
(* and every dirty flag as they were and writes nothing outside the two   *)
(* arrays.                                                                *)
(* Fails: track_changes[y] = 1 runs before the range test.                *)
C17_OutOfRangeStep ==
    (frame'.op = "LCD_Set_Pixel" /\ (frame'.x >= 240 \/ frame'.y >= 240)) =>
        /\ image_buffer' = image_buffer
        /\ track_changes' = track_changes
        /\ stray' = stray

C17_OutOfRangeIgnored == [][C17_OutOfRangeStep]_vars

----------------------------------------------------------------------------
(* The pixels of a shape, at signed coordinates of any size *)

PixelsOfLine(x0, y0, x1, y1) ==
    LET y_range == y1 - y0
        x_range == x1 - x0
        lo(a, b) == IF a < b THEN a ELSE b
        hi(a, b) == IF a < b THEN b ELSE a
    IN  IF x_range = 0 /\ y_range = 0 THEN {[x |-> x0, y |-> y0]}
        ELSE IF Abs(x_range) > Abs(y_range)
        THEN {[x |-> x, y |-> y0 + CQuot(y_range * (x - x0), x_range)] :
                 x \in lo(x0, x1) .. hi(x0, x1)}
        ELSE {[x |-> x0 + CQuot(x_range * (y - y0), y_range), y |-> y] :
                 y \in lo(y0, y1) .. hi(y0, y1)}

PixelsOfRect(x0, y0, width, height) ==
    {[x |-> x, y |-> y] : x \in x0 .. (x0 + width - 1), y \in y0 .. (y0 + height - 1)}

\* the disc of the midpoint algorithm: the horizontal spans between its outline points
PixelsOfDisc(x0, y0, radius) ==
    LET steps == CircleSteps(radius, 0, 1 - radius)
    IN  UNION {PixelsOfLine(x0 - s.x, y0 + s.y, x0 + s.x, y0 + s.y) \cup
               PixelsOfLine(x0 - s.y, y0 + s.x, x0 + s.y, y0 + s.x) \cup
               PixelsOfLine(x0 - s.y, y0 - s.x, x0 + s.y, y0 - s.x) \cup
               PixelsOfLine(x0 - s.x, y0 - s.y, x0 + s.x, y0 - s.y) :
               s \in {steps[k] : k \in DOMAIN steps}}

\* the shape a logged call asks for, its uint16_t coordinates read as signed
ShapeOf(f) ==
    CASE f.op = "LCD_Draw_Line" ->
             PixelsOfLine(Int16(f.x0), Int16(f.y0), Int16(f.x1), Int16(f.y1))
      [] f.op = "LCD_Draw_Rect" ->
             PixelsOfRect(Int16(f.x0), Int16(f.y0), f.width, f.height)
      [] f.op = "LCD_Draw_Circle" ->
             PixelsOfDisc(Int16(f.x0), Int16(f.y0), f.radius)

Visible(shape) == {p \in shape : p.x \in 0 .. (ST7789V2_WIDTH - 1) /\ p.y \in Rows}

IsFilledShape(f) ==
    \/ f.op = "LCD_Draw_Line"
    \/ f.op \in {"LCD_Draw_Rect", "LCD_Draw_Circle"} /\ f.fill # 0

\* the pixels held in the bytes in which a buffer departs from its fill
WrittenPixels(buf) ==
    UNION {{[x |-> (2 * i) % ST7789V2_WIDTH, y |-> (2 * i) \div ST7789V2_WIDTH],
            [x |-> (2 * i + 1) % ST7789V2_WIDTH, y |-> (2 * i + 1) \div ST7789V2_WIDTH]} :
           i \in DOMAIN buf.over}

(* C18: a line, filled rectangle or filled circle of which some pixel lies *)
(* outside the 240x240 buffer sets the pixels of the shape that are inside *)
(* to the colour, leaves every other pixel as it was and writes nothing    *)
(* outside the arrays.                                                     *)
(* Fails across the left edge: the loop of LCD_Draw_Line runs from the     *)
(* wrapped start coordinate and makes no pass.  Fails across the top and   *)
(* bottom edges by C17's write of track_changes[y] for y >= 240.           *)
C18_ClipStep ==
    (IsFilledShape(frame') /\ ShapeOf(frame') # Visible(ShapeOf(frame'))) =>
        LET inside == Visible(ShapeOf(frame'))
        IN  /\ stray' = stray
            /\ image_buffer'.fill = image_buffer.fill
            /\ \A p \in inside \cup WrittenPixels(image_buffer) \cup WrittenPixels(image_buffer') :
                   StoredIndex(image_buffer', p.x, p.y) =
                       IF p \in inside THEN frame'.colour
                       ELSE StoredIndex(image_buffer, p.x, p.y)

C18_ShapesClipped == [][C18_ClipStep]_vars

\* the same for the shapes that cross the right edge only
C18_RightEdgeStep ==
    (/\ IsFilledShape(frame')
     /\ ShapeOf(frame') # Visible(ShapeOf(frame'))
     /\ \A p \in ShapeOf(frame') : p.x >= 0 /\ p.y \in Rows) => C18_ClipStep

C18_RightEdgeClipped == [][C18_RightEdgeStep]_vars


(* C19: after LCD_clear every pixel holds index 0 and every row is dirty; *)
(* after LCD_Fill_Buffer(c), c in 0..15, every pixel holds c and every    *)
(* row is dirty.                                                          *)
C19_ClearFillStep ==
    /\ frame'.op = "LCD_clear" =>
           /\ EveryPixelHolds(image_buffer', 0)
           /\ \A r \in Rows : track_changes'[r] # 0
    /\ (frame'.op = "LCD_Fill_Buffer" /\ frame'.colour \in 0 .. 15) =>
           /\ EveryPixelHolds(image_buffer', frame'.colour)
           /\ \A r \in Rows : track_changes'[r] # 0

C19_ClearAndFill == [][C19_ClearFillStep]_vars

\* a fill with index 7 over a refreshed buffer
C19_Witness ==
    /\ frame.op = "LCD_Fill_Buffer"
    /\ frame.colour = 7
    /\ panel[0] # NeverSent
    /\ StoredIndex(image_buffer, 238, 239) = 7
    /\ StoredIndex(image_buffer, 239, 239) = 7
    /\ \A r \in Rows : track_changes[r] = 1

SpriteOps ==
    {"LCD_Draw_Sprite", "LCD_Draw_Sprite_Scaled", "LCD_Draw_Sprite_Colour",
     "LCD_Draw_Sprite_Colour_Scaled"}

(* C20: each of the four sprite blits, called with a sprite whose cells    *)
(* all hold 255, at any position and any scale, leaves every byte of the   *)
(* pixel buffer as it was.                                                 *)
C20_TransparentStep ==
    (frame'.op \in SpriteOps /\ AllTransparent(frame'.sprite)) =>
        image_buffer' = image_buffer

C20_TransparentSprite == [][C20_TransparentStep]_vars

\* an all-transparent sprite has been blitted at a scale above 1 over pixels drawn before
C20_Witness ==
    /\ frame.op = "LCD_Draw_Sprite_Scaled"
    /\ AllTransparent(frame.sprite)
    /\ frame.scale > 1
    /\ frame.x0 + 1 < ST7789V2_WIDTH
    /\ frame.y0 < ST7789V2_HEIGHT
    /\ StoredIndex(image_buffer, frame.x0 + 1, frame.y0) = 3

(* C21: a frame that triggers a cue leaves the tone sounding; with no      *)
(* other cue triggered, a frame less than 40 ms after the cue leaves it    *)
(* sounding and the first frame 40 ms or more after the cue silences it,   *)
(* whatever the 32-bit tick of the cue.                                    *)
(* Fails for the cue at tick 2^32 - 40: the stop time is 0, the value that *)
(* means no tone is pending.                                               *)
C21_CueStep ==
    LET cued == HasEvent(frame', "beep")
        since == U32_Sub(tick', frame.cue)
    IN  /\ cued => buzzer'.pwm_started
        /\ (~cued /\ frame.cue # NoCue /\ buzzer.pwm_started) =>
               (buzzer'.pwm_started <=> (since.hi = 0 /\ since.lo < BUZZER_BEEP_MS))

C21_OneShotCue == [][C21_CueStep]_vars

\* the same for the cues triggered at any tick other than 2^32 - 40
C21_CueStepButOne == (frame.cue # BeforeWrap(BUZZER_BEEP_MS)) => C21_CueStep

C21_OneShotCueButOne == [][C21_CueStepButOne]_vars

(* C22: in every run of the protocol a tone that sounds is silenced at     *)
(* some later point.                                                       *)
(* Fails for a cue triggered in the game-over frame: the tone is silenced  *)
(* by a later PongEngine_Update only, and the protocol makes none.         *)
C22_ToneSilenced == buzzer.pwm_started ~> ~buzzer.pwm_started

\* the frequency of the last cue of a frame
LastCue(f) ==
    LET beeps == SelectSeq(f.events, LAMBDA e : e.ev = "beep")
    IN  beeps[Len(beeps)].freq_hz

\* the buzzer sounds at freq_hz: the period register holds 1 MHz / freq_hz - 1
SoundsAt(b, freq_hz) == b.pwm_started /\ b.arr = (BUZZER_TICK_FREQ_HZ \div freq_hz) - 1

(* C23: after a frame that triggers cues the tone sounds at the frequency  *)
(* of the last of them, also when an earlier tone was still sounding; in a *)
(* frame with a wall hit and a paddle hit that is the 800 Hz paddle cue;   *)
(* a frame without a cue leaves the tone sounding while less than 40 ms    *)
(* have passed since the last cue and silences it otherwise, whatever the  *)
(* time of the cues before the last.                                       *)
C23_LastCueStep ==
    frame'.op = "PongEngine_Update" =>
        LET cued == HasEvent(frame', "beep")
            since == U32_Sub(tick', frame.cue)
        IN  /\ cued => SoundsAt(buzzer', LastCue(frame'))
            /\ (cued /\ HasEvent(frame', "paddle_hit")) =>
                   SoundsAt(buzzer', BUZZER_PADDLE_FREQ_HZ)
            /\ (~cued /\ buzzer.pwm_started) =>
                   (buzzer'.pwm_started <=> (since.hi = 0 /\ since.lo < BUZZER_BEEP_MS))

C23_LastTriggerWins == [][C23_LastCueStep]_vars

\* a paddle cue has replaced a tone that was sounding, and the frame after it,
\* 40 ms or more after the earlier cue, has left the 800 Hz tone sounding
C23_Witness ==
    /\ frame.op = "PongEngine_Update"
    /\ frame.n = 3
    /\ ~HasEvent(frame, "beep")
    /\ frame.over
    /\ frame.cue = U32(40)
    /\ tick = U32(50)
    /\ SoundsAt(buzzer, BUZZER_PADDLE_FREQ_HZ)

\* a frame has had a wall hit and a paddle hit
C23_WitnessSameFrame ==
    /\ frame.op = "PongEngine_Update"
    /\ \E i \in DOMAIN frame.events : frame.events[i].ev = "wall_top"
    /\ HasEvent(frame, "paddle_hit")
    /\ SoundsAt(buzzer, BUZZER_PADDLE_FREQ_HZ)

(* C24: in a frame whose goal reset has a failing random-number draw the   *)
(* life is taken, the velocity is reset to (8*0.707, 8*0.707), and the     *)
(* ball is put with zero offset from the centred position on the axis of   *)
(* the failed draw.                                                         *)
(* Fails: Random_U16 returns 0 for a failed draw and the reset subtracts   *)
(* 20 from it, so the ball is put 20 pixels left of and above the centre.  *)
C24_FailedDrawStep ==
    (frame'.op = "PongEngine_Update" /\ HasEvent(frame', "goal")) =>
        /\ (~frame'.rng[1].ok \/ ~frame'.rng[2].ok) =>
               /\ lives' = lives - 1
               /\ frame'.ret = lives'
               /\ ball'.velocity = [x |-> 5656, y |-> 5656]
        /\ ~frame'.rng[1].ok => ball'.x = Centred(ball.size)
        /\ ~frame'.rng[2].ok => ball'.y = Centred(ball.size)

C24_FailedDrawStepAsBuilt ==
    (frame'.op = "PongEngine_Update" /\ HasEvent(frame', "goal")) =>
        /\ (~frame'.rng[1].ok \/ ~frame'.rng[2].ok) =>
               /\ lives' = lives - 1
               /\ frame'.ret = lives'
               /\ ball'.velocity = [x |-> 5656, y |-> 5656]
        /\ ~frame'.rng[1].ok => ball'.x = Centred(ball.size) - 20
        /\ ~frame'.rng[2].ok => ball'.y = Centred(ball.size) - 20

C24_FailedDrawAsBuilt == [][C24_FailedDrawStepAsBuilt]_vars

C24_Witness ==
    /\ frame.op = "PongEngine_Update"
    /\ HasEvent(frame, "goal")
    /\ ~frame.rng[1].ok /\ ~frame.rng[2].ok
    /\ lives = 3
    /\ ball.x = 96 /\ ball.y = 96

(* C25: Random_U16(max) returns a value within 0..max for every max, 0 for *)
(* max = 0 whatever the generator wrote, and 0 when the generator reports  *)
(* a failure.                                                               *)
C25_RandomBounded ==
    frame.op = "Random_U16" =>
        /\ frame.ret \in 0..frame.max
        /\ frame.max = 0 => frame.ret = 0
        /\ ~frame.rng.ok => frame.ret = 0

\* the range 0 with a generator that wrote a non-zero word
C25_Witness ==
    /\ frame.op = "Random_U16"
    /\ frame.max = 0
    /\ frame.rng = [ok |-> TRUE, rnd |-> 2147483647]
    /\ frame.ret = 0

\* the largest value a range gives: max - 1, here in the range of the goal reset
C25_WitnessTop ==
    /\ frame.op = "Random_U16"
    /\ frame.max = 41
    /\ frame.ret = 40

\* a failure with a range other than 0
C25_WitnessFailure ==
    /\ frame.op = "Random_U16"
    /\ frame.max = 65535
    /\ ~frame.rng.ok
    /\ frame.ret = 0

\* the compass point of sector k, k = 0 for N, clockwise
CompassPoint(k) == <<"N", "NE", "E", "SE", "S", "SW", "W", "NW">>[k + 1]

(* C26 as stated: with a magnitude of 0.05 or more Joystick_GetDirection   *)
(* gives N for the angles 0, 44 and 359 and NE for 46; with the magnitude  *)
(* 0.03 it gives CENTRE for any angle.                                      *)
(* Fails for 44 degrees, which lies in [22.5, 67.5) and gives NE.          *)
C26_Examples ==
    frame.op = "Joystick_GetDirection" =>
        /\ (frame.magnitude >= 50 /\ frame.angle = 0) => frame.ret = "N"
        /\ (frame.magnitude >= 50 /\ frame.angle = 44000) => frame.ret = "N"
        /\ (frame.magnitude >= 50 /\ frame.angle = 46000) => frame.ret = "NE"
        /\ (frame.magnitude >= 50 /\ frame.angle = 359000) => frame.ret = "N"
        /\ frame.magnitude = 30 => frame.ret = "CENTRE"

(* C26 amended: with a magnitude of 0.05 or more Joystick_GetDirection     *)
(* gives N for the angles 0, 22 and 359 and NE for 23, 44 and 46; with the *)
(* magnitude 0.03 it gives CENTRE for any angle.                            *)
C26_ExamplesAmended ==
    frame.op = "Joystick_GetDirection" =>
        /\ (frame.magnitude >= 50 /\ frame.angle = 0) => frame.ret = "N"
        /\ (frame.magnitude >= 50 /\ frame.angle = 22000) => frame.ret = "N"
        /\ (frame.magnitude >= 50 /\ frame.angle = 23000) => frame.ret = "NE"
        /\ (frame.magnitude >= 50 /\ frame.angle = 44000) => frame.ret = "NE"
        /\ (frame.magnitude >= 50 /\ frame.angle = 46000) => frame.ret = "NE"
        /\ (frame.magnitude >= 50 /\ frame.angle = 359000) => frame.ret = "N"
        /\ frame.magnitude = 30 => frame.ret = "CENTRE"

C26_Witness ==
    /\ frame.op = "Joystick_GetDirection"
    /\ frame.angle = 44000
    /\ frame.magnitude = 50
    /\ frame.ret = "NE"

\* the magnitude 0.03 with an angle that has a direction of its own
C26_WitnessCentre ==
    /\ frame.op = "Joystick_GetDirection"
    /\ frame.angle = 46000
    /\ frame.magnitude = 30
    /\ frame.ret = "CENTRE"

C27_WitnessUpper ==
    /\ frame.op = "Joystick_GetDirection"
    /\ frame.angle = 22500
    /\ frame.magnitude = 1000
    /\ frame.ret = "NE"

(* C28: Joystick_Read with a calibrated centre of 0 on either axis gives   *)
(* the direction CENTRE.                                                    *)
(* Fails: the division by the centre is made whatever its value.  A stick  *)
(* at rest gives 0.0f / 0.0f, NaN, which no comparison of                   *)
(* Joystick_GetDirection catches, so the last branch returns NW; a reading *)
(* beyond the deadzone gives infinity, clamped to full deflection.          *)
C28_ZeroCentreNeutral ==
    (frame.op = "Joystick_Read"
        /\ (joystick.cfg.center_x = 0 \/ joystick.cfg.center_y = 0)) =>
            joystick.data.direction = "CENTRE"

\* the stick at rest on a joystick whose x channel was calibrated to 0
C28_WitnessRest ==
    /\ frame.op = "Joystick_Read"
    /\ joystick.cfg.center_x = 0 /\ joystick.cfg.center_y = 2048
    /\ joystick.data.x_raw = 0 /\ joystick.data.y_raw = 2048
    /\ joystick.data.coord.x = NaN
    /\ joystick.data.direction = "NW"

\* with both centres at mid-scale the stick pushed up and right reads NE
C28_WitnessCalibrated ==
    /\ frame.op = "Joystick_Read"
    /\ joystick.cfg.center_x = 2048 /\ joystick.cfg.center_y = 2048
    /\ joystick.data.x_raw = 4095 /\ joystick.data.y_raw = 0
    /\ joystick.data.direction = "NE"

C30_FreqStep ==
    (frame'.op = "PWM_SetFreq" /\ frame.op = "PWM_SetDuty" /\ frame.args[1] \in 1..100) =>
        /\ PWM_IsRunning(pwm') = 1
        /\ pwm'.last_duty = frame.args[1]
        /\ pwm'.arr = PeriodFor(pwm, clamp_u32(frame'.args[1], pwm.min_freq_hz, pwm.max_freq_hz))
        /\ LET d == frame.args[1]
               scaled == ((pwm'.arr + 1) * d) \div 100
           IN  pwm'.ccr = IF scaled < pwm'.arr THEN scaled ELSE pwm'.arr
        /\ pwm'.ccr <= pwm'.arr

C30_FreqKeepsDuty == [][C30_FreqStep]_vars

\* full duty carried from the reset period 65535 to the period 999 of 1 kHz: the
\* compare value is capped at 999
C30_Witness ==
    /\ frame.op = "PWM_SetFreq"
    /\ frame.args = <<1000>>
    /\ frame.before = [op |-> "PWM_SetDuty", args |-> <<100>>]
    /\ frame.n = 2
    /\ pwm.arr = 999
    /\ pwm.ccr = 999
    /\ pwm.last_duty = 100

C31_WitnessGoal ==
    /\ IsFrame(frame)
    /\ HasEvent(frame, "goal")
    /\ frame.paddled.x < 0
    /\ ball.x >= 96

(* C32: a frame takes at most one life, and in a game whose paddle has its *)
(* right edge at x >= 0 a frame that increments the score leaves lives as  *)
(* they were: a paddle hit and a life loss never share a frame.            *)
C32_Step ==
    IsFrame(frame') =>
        /\ lives - lives' <= 1
        /\ (paddle.x + paddle.width >= 0 /\ paddle'.score # paddle.score) =>
               /\ lives' = lives
               /\ ~HasEvent(frame', "goal")
        /\ (paddle.x + paddle.width >= 0 /\ HasEvent(frame', "paddle_hit")) =>
               /\ lives' = lives
               /\ ~HasEvent(frame', "goal")

C32_HitOrLoss == [][C32_Step]_vars

\* the ball was beyond the left edge when it hit the paddle, and no life was taken
C32_Witness ==
    /\ IsFrame(frame)
    /\ HasEvent(frame, "paddle_hit")
    /\ frame.walled.x < 0
    /\ ball.x = paddle.x + paddle.width
    /\ paddle.score = 1
    /\ lives = 4

(* C33: in a game started with the paddle at the left of the screen, a     *)
(* frame with a paddle collision leaves the ball with a horizontal         *)
(* velocity above 0, and in the frame after it the ball does not overlap   *)
(* the paddle and the score is not incremented again.                      *)
C33_Step ==
    (IsFrame(frame) /\ HasEvent(frame, "paddle_hit") /\ IsFrame(frame')) =>
        /\ ~Overlaps(frame'.walled.x, frame'.walled.y, ball.size, paddle')
        /\ ~HasEvent(frame', "paddle_hit")
        /\ paddle'.score = paddle.score

C33_HitSendsRight ==
    /\ []((IsFrame(frame) /\ HasEvent(frame, "paddle_hit")) => ball.velocity.x > 0)
    /\ [][C33_Step]_vars

\* the frame after a hit: the ball one step right of the paddle's right edge, level
\* with the paddle, and no second point
C33_Witness ==
    /\ IsFrame(frame)
    /\ ~HasEvent(frame, "paddle_hit")
    /\ paddle.score = 1
    /\ ball.velocity.x > 0
    /\ ball.x = paddle.x + paddle.width + WholePixels(ball.velocity.x)
    /\ ball.y < paddle.y + paddle.height
    /\ ball.y + ball.size > paddle.y

\* frames a ball moving step pixels a frame needs at most to cross the screen and return
ReturnFrames(step) == (2 * SCREEN_WIDTH) \div step

(* C34: while lives remain and the ball moves at least one whole pixel a   *)
(* frame horizontally, the number of frames since the last paddle hit or   *)
(* goal never exceeds the frames the ball needs to cross the screen and    *)
(* come back, whatever the joystick does.                                  *)
C34_NeverStuck ==
    (IsFrame(frame) /\ lives > 0 /\ WholePixels(ball.velocity.x) # 0) =>
        frame.since <= ReturnFrames(Abs(WholePixels(ball.velocity.x)))

\* a goal or a hit that came after the ball crossed the screen both ways at the
\* speed of a reset, 5 pixels a frame
C34_Witness ==
    /\ IsFrame(frame)
    /\ frame.since = 0
    /\ frame.n > 100
    /\ frame.waited >= 70
    /\ lives > 0

(* C35: after n calls of Ball_Update in free flight each coordinate has    *)
(* moved by n times its velocity component truncated toward zero, nothing  *)
(* of the fraction being carried over, and a component of magnitude below  *)
(* 1 leaves its coordinate where it was.                                   *)
C35_TruncatedStep ==
    (frame.op = "Ball_Update") =>
        /\ ball.x = frame.start.x + frame.n * WholePixels(ball.velocity.x)
        /\ ball.y = frame.start.y + frame.n * WholePixels(ball.velocity.y)
        /\ (Abs(ball.velocity.x) < 1000 => ball.x = frame.start.x)
        /\ (Abs(ball.velocity.y) < 1000 => ball.y = frame.start.y)

\* four updates at (1.5, 0.999): four pixels across, none down
C35_Witness ==
    /\ frame.op = "Ball_Update"
    /\ frame.n = 4
    /\ ball.velocity = [x |-> 1500, y |-> 999]
    /\ ball.x = frame.start.x + 4
    /\ ball.y = frame.start.y

\* the ball of Ball_Init(size, 1): velocity (0.707, 0.707), still after four updates
C35_WitnessSlow ==
    /\ frame.op = "Ball_Update"
    /\ frame.n = 4
    /\ ball.velocity = [x |-> DIAG_707, y |-> DIAG_707]
    /\ ball.x = frame.start.x
    /\ ball.y = frame.start.y

\* the pixel that shares its byte with (x, y)
ByteMate(x, y) == [x |-> IF x % 2 = 1 THEN x - 1 ELSE x + 1, y |-> y]

(* C36: LCD_Set_Pixel(x, y, index) with x, y < 240 and any index in 0..254  *)
(* leaves the pixel packed in the same byte and every other pixel as they   *)
(* were.                                                                    *)
(* Fails: for an even x the byte written is colour | (byte & 0xF0), so the  *)
(* bits 4..7 of the index are or-ed into the pixel at x + 1.                *)
C36_OnlyThatPixelStep ==
    (frame'.op = "LCD_Set_Pixel" /\ frame'.x < 240 /\ frame'.y < 240) =>
        /\ image_buffer'.fill = image_buffer.fill
        /\ \A p \in {ByteMate(frame'.x, frame'.y)} \cup WrittenPixels(image_buffer)
                        \cup WrittenPixels(image_buffer') :
               p # [x |-> frame'.x, y |-> frame'.y] =>
                   StoredIndex(image_buffer', p.x, p.y) = StoredIndex(image_buffer, p.x, p.y)

C36_OnlyThatPixel == [][C36_OnlyThatPixelStep]_vars

\* the same restricted to the calls that pass a 4-bit index or write an odd x
C36_NarrowStep ==
    (frame'.op = "LCD_Set_Pixel" /\ (frame'.colour \in 0 .. 15 \/ frame'.x % 2 = 1))
        => C36_OnlyThatPixelStep

C36_NarrowOrOdd == [][C36_NarrowStep]_vars

\* the pixels holding the colour of the call that has returned
LineDrawn == {p \in WrittenPixels(image_buffer) : StoredIndex(image_buffer, p.x, p.y) = frame.colour}

LineInRange ==
    /\ frame.x0 < 240 /\ frame.x1 < 240
    /\ frame.y0 < 240 /\ frame.y1 < 240

\* the passes of the loop are the calls LinePixels lists
LineLoopAgrees ==
    (frame.pc = "done" /\ LineInRange) =>
        LET calls == LinePixels(frame.x0, frame.y0, frame.x1, frame.y1, frame.colour)
        IN  LineDrawn = {[x |-> calls[k].x, y |-> calls[k].y] : k \in DOMAIN calls}

(* C37: a call of LCD_Draw_Line between endpoints inside the buffer sets    *)
(* max(|x1-x0|, |y1-y0|) + 1 pixels, both endpoints among them, one at each *)
(* value of the coordinate with the larger delta, each next to the one      *)
(* before; with both deltas zero it sets the pixel (x0, y0) alone; and for  *)
(* every pair of uint16_t endpoints the call returns: each pass of the loop *)
(* brings the loop variable one nearer to stop + 1, which it never passes,  *)
(* and the call returns when it gets there.                                 *)
C37_LineWhenDone ==
    (frame.pc = "done" /\ LineInRange) =>
        LET dx == Abs(frame.x1 - frame.x0)
            dy == Abs(frame.y1 - frame.y0)
            lo(a, b) == IF a < b THEN a ELSE b
            hi(a, b) == IF a < b THEN b ELSE a
            major(p) == IF dx > dy THEN p.x ELSE p.y
            minor(p) == IF dx > dy THEN p.y ELSE p.x
            from == IF dx > dy THEN lo(frame.x0, frame.x1) ELSE lo(frame.y0, frame.y1)
            to == IF dx > dy THEN hi(frame.x0, frame.x1) ELSE hi(frame.y0, frame.y1)
        IN  /\ Cardinality(LineDrawn) = hi(dx, dy) + 1
            /\ [x |-> frame.x0, y |-> frame.y0] \in LineDrawn
            /\ [x |-> frame.x1, y |-> frame.y1] \in LineDrawn
            /\ \A m \in from .. to : Cardinality({p \in LineDrawn : major(p) = m}) = 1
            /\ \A p \in LineDrawn, q \in LineDrawn :
                   major(q) = major(p) + 1 => Abs(minor(q) - minor(p)) <= 1
            /\ (dx = 0 /\ dy = 0) => LineDrawn = {[x |-> frame.x0, y |-> frame.y0]}

C37_PassStep ==
    frame.pc = "loop" =>
        /\ frame.stop <= 65535
        /\ frame'.pc = "loop" => (frame'.i = frame.i + 1 /\ frame'.i <= frame.stop + 1)
        /\ frame.i > frame.stop => frame'.pc = "done"

C37_LineDrawnAndReturns ==
    /\ []C37_LineWhenDone
    /\ [][C37_PassStep]_vars

\* a slanted segment drawn from its right end: 8 pixels from (2, 3) to (9, 6)
C37_Witness ==
    /\ frame.pc = "done"
    /\ frame.x0 = 9 /\ frame.y0 = 6 /\ frame.x1 = 2 /\ frame.y1 = 3
    /\ Cardinality(LineDrawn) = 8
    /\ [x |-> 5, y |-> 5] \in LineDrawn

\* the loop from 65000 to 65535 has returned, its variable one beyond a uint16_t
C37_WitnessLast ==
    /\ frame.pc = "done"
    /\ frame.x0 = 65535 /\ frame.x1 = 65000
    /\ frame.i = 65536

\* the pixels of the rectangle of a logged LCD_Draw_Rect call: all of them when
\* filled, those of its first and last row and column when not
RectAsked(f) ==
    LET all == PixelsOfRect(f.x0, f.y0, f.width, f.height)
    IN  IF f.fill # 0 THEN all
        ELSE {p \in all : \/ p.x = f.x0 \/ p.x = f.x0 + f.width - 1
                          \/ p.y = f.y0 \/ p.y = f.y0 + f.height - 1}

C38_RectStep ==
    (/\ frame'.op = "LCD_Draw_Rect"
     /\ frame'.x0 + frame'.width <= 240
     /\ frame'.y0 + frame'.height <= 240) =>
        /\ stray' = stray
        /\ image_buffer'.fill = image_buffer.fill
        /\ \A p \in RectAsked(frame') \cup WrittenPixels(image_buffer)
                        \cup WrittenPixels(image_buffer') :
               StoredIndex(image_buffer', p.x, p.y) =
                   IF p \in RectAsked(frame') THEN frame'.colour
                   ELSE StoredIndex(image_buffer, p.x, p.y)

(* C38: LCD_Draw_Rect with the rectangle inside the buffer sets, when       *)
(* filled, the width * height pixels of the rectangle and no other (none    *)
(* when the width or the height is 0), and when not filled the pixels of    *)
(* its four sides and no other.                                             *)
(* Fails for width 0: each row is LCD_Draw_Line(x0, y, x0 - 1, y), which    *)
(* sets the pixels x0 - 1 and x0.                                           *)
C38_RectExact == [][C38_RectStep]_vars

\* the same for the rectangles of width and height 1 or more
C38_ProperStep == (frame'.width >= 1 /\ frame'.height >= 1) => C38_RectStep

C38_ProperRects == [][C38_ProperStep]_vars

\* the same for the filled rectangles of height 0: nothing is drawn
C38_FlatStep == (frame'.fill # 0 /\ frame'.height = 0) => C38_RectStep

C38_FlatFilled == [][C38_FlatStep]_vars

\* the statement-by-statement LCD_Refresh ends where LCD_Refresh as one step does:
\* no row dirty, the rows that were dirty on the display
RefreshAgrees ==
    (frame.pc = "done" /\ ~frame.busy) =>
        /\ \A r \in Rows : track_changes[r] = 0
        /\ \A r \in frame.dirty : panel[r] = PanelRow(LineBuffer(Statics, r))
        /\ \A r \in Rows \ (frame.dirty \cup {238, 239}) : panel[r] = NeverSent

(* C39: whenever the CPU is about to write line_buffer0 or line_buffer1 in  *)
(* LCD_Refresh, no DMA transfer from that buffer is in progress, whichever  *)
(* rows are dirty and whether or not a block of the previous call is still  *)
(* on its way.                                                              *)
C39_NoWriteUnderDma ==
    frame.pc = "fill" => ~(frame.busy /\ frame.src = frame.row % 2)

\* line_buffer1 is about to be filled for row 1 while row 0 is going out of line_buffer0
C39_Witness ==
    /\ frame.pc = "fill"
    /\ frame.row = 1
    /\ frame.busy
    /\ frame.src = 0
    /\ frame.sending = 0

\* rows 0 and 2 dirty, row 1 not: the CPU waits for line_buffer0 to be out
C39_WitnessWait ==
    /\ frame.pc = "wait"
    /\ frame.row = 2
    /\ frame.busy
    /\ frame.src = 0

====
